---- MODULE Spec2Model ----
(***************************************************************************)
(* Model of the JMX test-plan document core of the JMeter toolkit          *)
(* (app/routers/jmx_editor.py): the component catalog, validate_component, *)
(* validate_test_plan, generate_jmx / _generate_jmx_xml and parse_jmx_xml. *)
(*                                                                         *)
(* Python strings that pass through a conversion (str(), escape, the XML   *)
(* reader, unescape, int()) are sequences of one-character strings.        *)
(* Property values are tagged records, one tag per Python kind.            *)
(* The generated text is a sequence of markup tokens: one token per        *)
(* component element (with its attributes and property sub-elements), one  *)
(* per placeholder comment and one per hashTree marker; indentation is     *)
(* left out.                                                               *)
(***************************************************************************)
EXTENDS Integers, Sequences, FiniteSets, TLC

\* plan: the document the client holds; last: the last request and its
\* answer; files: the texts written under static/outputs; nextId: the number
\* of ids generateId has drawn
VARIABLES plan, last, files, nextId, jmeter_status_tracker, tasks

vars == <<plan, last, files, nextId, jmeter_status_tracker, tasks>>

-----------------------------------------------------------------------------
(* Character sequences                                                     *)

RECURSIVE ConcatAll(_)
ConcatAll(ss) ==
    IF ss = <<>> THEN <<>> ELSE Head(ss) \o ConcatAll(Tail(ss))

HasPrefixAt(s, i, pat) ==
    /\ i + Len(pat) - 1 <= Len(s)
    /\ \A j \in 1..Len(pat) : s[i + j - 1] = pat[j]

\* str.startswith
startswith(s, pat) == HasPrefixAt(s, 1, pat)

\* str.endswith
endswith(s, pat) == Len(pat) <= Len(s) /\ HasPrefixAt(s, Len(s) - Len(pat) + 1, pat)

\* str.replace(pat, rep): left to right, non-overlapping
RECURSIVE ReplaceFrom(_, _, _, _)
ReplaceFrom(s, i, pat, rep) ==
    IF i > Len(s) THEN <<>>
    ELSE IF HasPrefixAt(s, i, pat)
         THEN rep \o ReplaceFrom(s, i + Len(pat), pat, rep)
         ELSE <<s[i]>> \o ReplaceFrom(s, i + 1, pat, rep)

replace(s, pat, rep) == ReplaceFrom(s, 1, pat, rep)

AMP  == <<"&", "a", "m", "p", ";">>
LT   == <<"&", "l", "t", ";">>
GT   == <<"&", "g", "t", ";">>
QUOT == <<"&", "q", "u", "o", "t", ";">>
APOS == <<"&", "a", "p", "o", "s", ";">>

\* xml.sax.saxutils.escape: & first, then > and <
escape(s) == replace(replace(replace(s, <<"&">>, AMP), <<">">>, GT), <<"<">>, LT)

\* xml.sax.saxutils.unescape: &lt; and &gt; first, &amp; last
unescape(s) == replace(replace(replace(s, LT, <<"<">>), GT, <<">">>), AMP, <<"&">>)

\* str.lower, on ASCII letters
LowerChar(c) ==
    LET upper == <<"A", "B", "C", "D", "E", "F", "G", "H", "I", "J", "K", "L", "M", "N", "O", "P", "Q", "R", "S", "T", "U", "V", "W", "X", "Y", "Z">>
        lowc  == <<"a", "b", "c", "d", "e", "f", "g", "h", "i", "j", "k", "l", "m", "n", "o", "p", "q", "r", "s", "t", "u", "v", "w", "x", "y", "z">>
    IN  IF \E i \in 1..26 : upper[i] = c
        THEN lowc[CHOOSE i \in 1..26 : upper[i] = c] ELSE c

lower(s) == [i \in 1..Len(s) |-> LowerChar(s[i])]

DigitChars == <<"0", "1", "2", "3", "4", "5", "6", "7", "8", "9">>

RECURSIVE NatToStr(_)
NatToStr(n) ==
    IF n < 10 THEN <<DigitChars[n + 1]>>
    ELSE NatToStr(n \div 10) \o <<DigitChars[(n % 10) + 1]>>

\* str(int)
IntToStr(n) == IF n < 0 THEN <<"-">> \o NatToStr(0 - n) ELSE NatToStr(n)

IsDigit(c) == \E d \in 1..10 : DigitChars[d] = c

DigitVal(c) == (CHOOSE d \in 1..10 : DigitChars[d] = c) - 1

RECURSIVE DigitsToNat(_, _)
DigitsToNat(s, acc) ==
    IF s = <<>> THEN acc
    ELSE DigitsToNat(Tail(s), acc * 10 + DigitVal(Head(s)))

\* str.strip, on blanks
RECURSIVE Strip(_)
Strip(s) ==
    IF s # <<>> /\ Head(s) = " " THEN Strip(Tail(s))
    ELSE IF s # <<>> /\ s[Len(s)] = " " THEN Strip(SubSeq(s, 1, Len(s) - 1))
    ELSE s

\* int(str): blanks around, an optional sign, then digits that single
\* underscores may separate; ValueError otherwise
StrToInt(s) ==
    LET t      == Strip(s)
        signed == t # <<>> /\ Head(t) \in {"-", "+"}
        body   == IF signed THEN Tail(t) ELSE t
        digits == SelectSeq(body, IsDigit)
    IN  IF /\ body # <<>>
           /\ IsDigit(body[1]) /\ IsDigit(body[Len(body)])
           /\ \A i \in 1..Len(body) : IsDigit(body[i]) \/ body[i] = "_"
           /\ \A i \in 1..(Len(body) - 1) : ~(body[i] = "_" /\ body[i + 1] = "_")
        THEN [ok |-> TRUE,
              n  |-> IF signed /\ Head(t) = "-"
                     THEN 0 - DigitsToNat(digits, 0) ELSE DigitsToNat(digits, 0)]
        ELSE [ok |-> FALSE, n |-> 0]

S_true  == <<"t", "r", "u", "e">>
S_false == <<"f", "a", "l", "s", "e">>
S_True  == <<"T", "r", "u", "e">>
S_False == <<"F", "a", "l", "s", "e">>
S_http  == <<"h", "t", "t", "p">>
S_https == <<"h", "t", "t", "p", "s">>
S_GET   == <<"G", "E", "T">>
S_POST  == <<"P", "O", "S", "T">>
S_slash == <<"/">>
S_continue == <<"c", "o", "n", "t", "i", "n", "u", "e">>

-----------------------------------------------------------------------------
(* Property values: JSON values as Python sees them                        *)

IntV(n)  == [k |-> "int",  n |-> n, s |-> <<>>, b |-> FALSE, l |-> <<>>]
StrV(s)  == [k |-> "str",  n |-> 0, s |-> s,    b |-> FALSE, l |-> <<>>]
BoolV(b) == [k |-> "bool", n |-> 0, s |-> <<>>, b |-> b,     l |-> <<>>]
NullV    == [k |-> "null", n |-> 0, s |-> <<>>, b |-> FALSE, l |-> <<>>]
ListV(l) == [k |-> "list", n |-> 0, s |-> <<>>, b |-> FALSE, l |-> l]

\* one entry of a headers list: a dict with "key" and "value", or something else
HeaderEntry(key, value) == [dict |-> TRUE, key |-> key, value |-> value]
NotADict == [dict |-> FALSE, key |-> <<>>, value |-> <<>>]

\* isinstance(value, (int, float)): bool is a subclass of int
IsNumber(v) == v.k \in {"int", "bool"}

NumVal(v) == IF v.k = "bool" THEN (IF v.b THEN 1 ELSE 0) ELSE v.n

\* isinstance(value, bool)
IsBool(v) == v.k = "bool"

\* Python truthiness
Truthy(v) ==
    CASE v.k = "int"  -> v.n # 0
      [] v.k = "str"  -> v.s # <<>>
      [] v.k = "bool" -> v.b
      [] v.k = "list" -> v.l # <<>>
      [] OTHER        -> FALSE

\* str(value) for the scalar kinds and the empty list
Str(v) ==
    CASE v.k = "int"  -> IntToStr(v.n)
      [] v.k = "str"  -> v.s
      [] v.k = "bool" -> IF v.b THEN S_True ELSE S_False
      [] v.k = "null" -> <<"N", "o", "n", "e">>
      [] OTHER        -> <<"[", "]">>

\* dict.get(key, default)
Get(props, key, default) == IF key \in DOMAIN props THEN props[key] ELSE default

-----------------------------------------------------------------------------
(* The component catalog                                                   *)

\* one property definition of a schema entry
PropDef(name, type, required, hasmin, min, hasmax, max) ==
    [name |-> name, type |-> type, required |-> required,
     hasmin |-> hasmin, min |-> min, hasmax |-> hasmax, max |-> max]

Req(name)           == PropDef(name, "string", TRUE, FALSE, 0, FALSE, 0)
Plain(name, type)   == PropDef(name, type, FALSE, FALSE, 0, FALSE, 0)
NumMin(name, min)   == PropDef(name, "number", FALSE, TRUE, min, FALSE, 0)
NumMinMax(name, min, max) == PropDef(name, "number", FALSE, TRUE, min, TRUE, max)

JMX_COMPONENT_LIBRARY ==
    [test_plan |->
        [category |-> "root",
         properties |-> << Req("name"), Plain("comments", "textarea"),
                           Plain("functional_mode", "boolean"),
                           Plain("teardown_on_shutdown", "boolean"),
                           Plain("serialize_threadgroups", "boolean") >>,
         allowed_children |-> {"thread_group", "config_element", "listener"}],
     thread_group |->
        [category |-> "threads",
         properties |-> << Req("name"), NumMinMax("num_threads", 1, 10000),
                           NumMin("ramp_time", 0), NumMin("loops", -1),
                           Plain("continue_forever", "boolean"),
                           Plain("on_sample_error", "select"),
                           Plain("scheduler", "boolean"),
                           NumMin("duration", 0), NumMin("delay", 0) >>,
         allowed_children |-> {"sampler", "controller", "config_element",
                               "listener", "timer", "assertion"}],
     http_request |->
        [category |-> "sampler",
         properties |-> << Req("name"), Plain("domain", "string"),
                           NumMinMax("port", 1, 65535),
                           Plain("protocol", "select"), Plain("path", "string"),
                           Plain("method", "select"),
                           Plain("follow_redirects", "boolean"),
                           Plain("auto_redirects", "boolean"),
                           Plain("use_keepalive", "boolean"),
                           Plain("body", "textarea"),
                           Plain("content_encoding", "string"),
                           NumMin("connect_timeout", 0),
                           NumMin("response_timeout", 0) >>,
         allowed_children |-> {"config_element", "assertion", "extractor"}],
     transaction_controller |->
        [category |-> "controller",
         properties |-> << Req("name"), Plain("include_timers", "boolean"),
                           Plain("generate_parent_sample", "boolean") >>,
         allowed_children |-> {"sampler", "controller", "config_element",
                               "timer", "assertion"}],
     header_manager |->
        [category |-> "config_element",
         properties |-> << Req("name"), Plain("headers", "key_value_list") >>,
         allowed_children |-> {}],
     csv_data_config |->
        [category |-> "config_element",
         properties |-> << Req("name"), Req("filename"),
                           Plain("variable_names", "string"),
                           Plain("delimiter", "string"),
                           Plain("allow_quoted_data", "boolean"),
                           Plain("recycle_on_eof", "boolean"),
                           Plain("stop_thread_on_eof", "boolean"),
                           Plain("sharing_mode", "select") >>,
         allowed_children |-> {}],
     view_results_tree |->
        [category |-> "listener",
         properties |-> << Req("name"), Plain("filename", "string"),
                           Plain("error_logging", "boolean"),
                           Plain("success_only_logging", "boolean") >>,
         allowed_children |-> {}],
     summary_report |->
        [category |-> "listener",
         properties |-> << Req("name"), Plain("filename", "string") >>,
         allowed_children |-> {}],
     response_assertion |->
        [category |-> "assertion",
         properties |-> << Req("name"), Plain("test_field", "select"),
                           Plain("pattern_matching", "select"),
                           Plain("patterns", "string_list"),
                           Plain("assume_success", "boolean"),
                           Plain("not", "boolean") >>,
         allowed_children |-> {}],
     constant_timer |->
        [category |-> "timer",
         properties |-> << Req("name"), NumMin("delay", 0) >>,
         allowed_children |-> {}]]

CatalogTypes == DOMAIN JMX_COMPONENT_LIBRARY

\* JMX_COMPONENT_LIBRARY.get(type, {}).get("category", "")
CategoryOf(type) ==
    IF type \in CatalogTypes THEN JMX_COMPONENT_LIBRARY[type].category ELSE ""

\* JMX_COMPONENT_LIBRARY.get(type, {}).get("allowed_children", [])
AllowedChildrenOf(type) ==
    IF type \in CatalogTypes THEN JMX_COMPONENT_LIBRARY[type].allowed_children ELSE {}

-----------------------------------------------------------------------------
(* Components and plans                                                    *)

\* a component; parent is <<>> for None and <<id>> for an id
JMXComponent(type, name, enabled, properties, children, parent) ==
    [type |-> type, name |-> name, enabled |-> enabled,
     properties |-> properties, children |-> children, parent |-> parent]

\* a plan; order is the insertion order of the components dict
JMXTestPlan(name, order, components, root_components) ==
    [name |-> name, order |-> order, components |-> components,
     root_components |-> root_components]

-----------------------------------------------------------------------------
(* validate_component                                                      *)

Err(msg, prop, n) ==
    [msg |-> msg, prop |-> prop, n |-> n, comp |-> <<>>, parent |-> <<>>]

Warn(msg) == [msg |-> msg, comp |-> <<>>]

\* the errors one schema property contributes (lines 214-229)
PropErrors(pd, props) ==
    IF pd.required /\ pd.name \notin DOMAIN props
    THEN << Err("Missing required property", pd.name, 0) >>
    ELSE IF pd.name \in DOMAIN props
    THEN LET value == props[pd.name]
             kind  ==
                IF pd.type = "number" /\ ~IsNumber(value)
                THEN IF value # StrV(<<>>)
                     THEN << Err("must be a number", pd.name, 0) >> ELSE <<>>
                ELSE IF pd.type = "boolean" /\ ~IsBool(value)
                     THEN << Err("must be a boolean", pd.name, 0) >> ELSE <<>>
             lo    ==
                IF pd.type = "number" /\ IsNumber(value)
                   /\ pd.hasmin /\ NumVal(value) < pd.min
                THEN << Err("must be >=", pd.name, pd.min) >> ELSE <<>>
             hi    ==
                IF pd.type = "number" /\ IsNumber(value)
                   /\ pd.hasmax /\ NumVal(value) > pd.max
                THEN << Err("must be <=", pd.name, pd.max) >> ELSE <<>>
         IN  kind \o lo \o hi
    ELSE <<>>

RECURSIVE AllPropErrors(_, _)
AllPropErrors(pds, props) ==
    IF pds = <<>> THEN <<>>
    ELSE PropErrors(Head(pds), props) \o AllPropErrors(Tail(pds), props)

\* line 233: the expression reads path only when domain is falsy, and
\* calls .startswith on whatever value path holds
DomainFalsy(props) == ~Truthy(Get(props, "domain", NullV))

PathRaises(props) == "path" \in DOMAIN props /\ props["path"].k # "str"

PathIsUrl(props) == startswith(Get(props, "path", StrV(<<>>)).s, S_http)

Result(status, errors, warnings) ==
    [status |-> status, valid |-> status = "ok" /\ errors = <<>>,
     errors |-> errors, warnings |-> warnings]

NoResult == Result("none", <<>>, <<>>)

\* mutation: the unknown type recorded as a warning instead of an error
UnknownTypeResult_Warned(component) ==
    Result("ok", <<>>, << Warn("Unknown component type") >>)

\* lines 206-208: the early return for a type outside the catalog
UnknownTypeResult(component) ==
    Result("ok", << Err("Unknown component type", component.type, 0) >>, <<>>)

validate_component(component) ==
    IF component.type \notin CatalogTypes
    THEN UnknownTypeResult(component)
    ELSE LET props  == component.properties
             errors == AllPropErrors(
                          JMX_COMPONENT_LIBRARY[component.type].properties, props)
         IN  IF component.type = "http_request" /\ DomainFalsy(props)
             THEN IF PathRaises(props)
                  THEN Result("AttributeError", <<>>, <<>>)
                  ELSE IF ~PathIsUrl(props)
                       THEN Result("ok", errors,
                              << Warn("HTTP Request should have a domain or full URL in path") >>)
                       ELSE Result("ok", errors, <<>>)
             ELSE Result("ok", errors, <<>>)

-----------------------------------------------------------------------------
(* validate_test_plan                                                      *)

\* f"Component '{component.name}': {error}"
Prefixed(msgs, name) == [i \in 1..Len(msgs) |-> [msgs[i] EXCEPT !.comp = name]]

HasThreadGroup(test_plan) ==
    \E id \in DOMAIN test_plan.components :
        test_plan.components[id].type = "thread_group"

\* lines 254-260, over the ids in dict order
RECURSIVE ComponentErrors(_, _)
ComponentErrors(test_plan, ids) ==
    IF ids = <<>> THEN <<>>
    ELSE LET component == test_plan.components[Head(ids)]
         IN  Prefixed(validate_component(component).errors, component.name)
                \o ComponentErrors(test_plan, Tail(ids))

RECURSIVE ComponentWarnings(_, _)
ComponentWarnings(test_plan, ids) ==
    IF ids = <<>> THEN <<>>
    ELSE LET component == test_plan.components[Head(ids)]
         IN  Prefixed(validate_component(component).warnings, component.name)
                \o ComponentWarnings(test_plan, Tail(ids))

\* `if component.parent:` is false for None and for the empty string
ParentSet(component) == component.parent # <<>> /\ component.parent[1] # ""

\* lines 264-275 for one component
HierarchyErrors(test_plan, component) ==
    IF ~ParentSet(component) THEN <<>>
    ELSE IF component.parent[1] \notin DOMAIN test_plan.components
    THEN << [msg |-> "has invalid parent reference", prop |-> "", n |-> 0,
             comp |-> component.name, parent |-> <<>>] >>
    ELSE LET parent == test_plan.components[component.parent[1]]
             allowed_children == AllowedChildrenOf(parent.type)
             component_category == CategoryOf(component.type)
         IN  IF allowed_children # {} /\ component_category \notin allowed_children
             THEN << [msg |-> "cannot be a child of", prop |-> "", n |-> 0,
                      comp |-> component.name, parent |-> parent.name] >>
             ELSE <<>>

RECURSIVE AllHierarchyErrors(_, _)
AllHierarchyErrors(test_plan, ids) ==
    IF ids = <<>> THEN <<>>
    ELSE HierarchyErrors(test_plan, test_plan.components[Head(ids)])
            \o AllHierarchyErrors(test_plan, Tail(ids))

NoThreadGroupError ==
    [msg |-> "Test plan must contain at least one Thread Group", prop |-> "",
     n |-> 0, comp |-> <<>>, parent |-> <<>>]

validate_test_plan(test_plan) ==
    IF \E id \in DOMAIN test_plan.components :
           validate_component(test_plan.components[id]).status # "ok"
    THEN Result("AttributeError", <<>>, <<>>)
    ELSE Result("ok",
                (IF HasThreadGroup(test_plan) THEN <<>> ELSE << NoThreadGroupError >>)
                    \o ComponentErrors(test_plan, test_plan.order)
                    \o AllHierarchyErrors(test_plan, test_plan.order),
                ComponentWarnings(test_plan, test_plan.order))

-----------------------------------------------------------------------------
(* _generate_jmx_xml: the markup tokens                                    *)

\* a property sub-element of a component element, in document order:
\* tg is its tag, name its name attribute when fixed, etype its elementType,
\* attr a name attribute computed from data, text its raw text, within the
\* elementType (or name) of the enclosing container, grp the index of that
\* container among its siblings
Node(tg, name, etype, attr, text, within, grp) ==
    [tg |-> tg, name |-> name, etype |-> etype, attr |-> attr, text |-> text,
     within |-> within, grp |-> grp]

StringProp(name, text, within, grp) == Node("stringProp", name, "", <<>>, text, within, grp)
BoolProp(name, text, within, grp)   == Node("boolProp", name, "", <<>>, text, within, grp)
ElementProp(name, etype, attr, within, grp) ==
    Node("elementProp", name, etype, attr, <<>>, within, grp)
CollectionProp(name, within)        == Node("collectionProp", name, "", <<>>, <<>>, within, 0)
ObjProp(name)                       == Node("objProp", name, "", <<>>, <<>>, "", 0)

\* the tokens of the text between the root hashTree markers
Element(testclass, guiclass, testname, enabled, props) ==
    [k |-> "elem", testclass |-> testclass, guiclass |-> guiclass,
     hasname |-> TRUE, testname |-> testname, enabled |-> enabled,
     props |-> props, ctype |-> ""]

Marker(k) ==
    [k |-> k, testclass |-> <<>>, guiclass |-> <<>>, hasname |-> FALSE,
     testname |-> <<>>, enabled |-> <<>>, props |-> <<>>, ctype |-> ""]

HashTreeOpen  == Marker("open")
HashTreeClose == Marker("close")
HashTreeEmpty == Marker("empty")

\* <!-- Unsupported component type: ... -->
Comment(type) == [Marker("comment") EXCEPT !.ctype = type]

\* the class names the generator writes and the parser dispatches on
C_TestPlan == <<"T", "e", "s", "t", "P", "l", "a", "n">>
G_TestPlanGui == <<"T", "e", "s", "t", "P", "l", "a", "n", "G", "u", "i">>
C_ThreadGroup == <<"T", "h", "r", "e", "a", "d", "G", "r", "o", "u", "p">>
G_ThreadGroupGui == <<"T", "h", "r", "e", "a", "d", "G", "r", "o", "u", "p", "G", "u", "i">>
C_HTTPSamplerProxy == <<"H", "T", "T", "P", "S", "a", "m", "p", "l", "e", "r", "P", "r", "o", "x", "y">>
G_HttpTestSampleGui == <<"H", "t", "t", "p", "T", "e", "s", "t", "S", "a", "m", "p", "l", "e", "G", "u", "i">>
C_TransactionController == <<"T", "r", "a", "n", "s", "a", "c", "t", "i", "o", "n", "C", "o", "n", "t", "r", "o", "l", "l", "e", "r">>
G_TransactionControllerGui == <<"T", "r", "a", "n", "s", "a", "c", "t", "i", "o", "n", "C", "o", "n", "t", "r", "o", "l", "l", "e", "r", "G", "u", "i">>
C_HeaderManager == <<"H", "e", "a", "d", "e", "r", "M", "a", "n", "a", "g", "e", "r">>
G_HeaderPanel == <<"H", "e", "a", "d", "e", "r", "P", "a", "n", "e", "l">>
C_ResultCollector == <<"R", "e", "s", "u", "l", "t", "C", "o", "l", "l", "e", "c", "t", "o", "r">>
G_ViewResultsFullVisualizer == <<"V", "i", "e", "w", "R", "e", "s", "u", "l", "t", "s", "F", "u", "l", "l", "V", "i", "s", "u", "a", "l", "i", "z", "e", "r">>
C_ConstantTimer == <<"C", "o", "n", "s", "t", "a", "n", "t", "T", "i", "m", "e", "r">>
C_UniformRandomTimer == <<"U", "n", "i", "f", "o", "r", "m", "R", "a", "n", "d", "o", "m", "T", "i", "m", "e", "r">>
C_GaussianRandomTimer == <<"G", "a", "u", "s", "s", "i", "a", "n", "R", "a", "n", "d", "o", "m", "T", "i", "m", "e", "r">>
C_ResponseAssertion == <<"R", "e", "s", "p", "o", "n", "s", "e", "A", "s", "s", "e", "r", "t", "i", "o", "n">>
C_JSONPathAssertion == <<"J", "S", "O", "N", "P", "a", "t", "h", "A", "s", "s", "e", "r", "t", "i", "o", "n">>
C_XPathAssertion == <<"X", "P", "a", "t", "h", "A", "s", "s", "e", "r", "t", "i", "o", "n">>
G_SummaryReport == <<"S", "u", "m", "m", "a", "r", "y", "R", "e", "p", "o", "r", "t">>

S_TestPlan    == <<"T", "e", "s", "t", " ", "P", "l", "a", "n">>
S_ThreadGroup == <<"T", "h", "r", "e", "a", "d", " ", "G", "r", "o", "u", "p">>
S_HTTPRequest == <<"H", "T", "T", "P", " ", "R", "e", "q", "u", "e", "s", "t">>
S_TransactionController == <<"T", "r", "a", "n", "s", "a", "c", "t", "i", "o", "n", " ", "C", "o", "n", "t", "r", "o", "l", "l", "e", "r">>
S_HeaderManager == <<"H", "T", "T", "P", " ", "H", "e", "a", "d", "e", "r", " ", "M", "a", "n", "a", "g", "e", "r">>
S_ViewResultsTree == <<"V", "i", "e", "w", " ", "R", "e", "s", "u", "l", "t", "s", " ", "T", "r", "e", "e">>

escape_xml(v) == IF v.k = "null" THEN <<>> ELSE escape(Str(v))

\* str(value).lower() of a flag
FlagText(v) == lower(Str(v))

\* the header sub-elements of a headers value: a list contributes one
\* elementProp per dict entry with key and value, a string contributes none
RECURSIVE HeaderNodes(_, _)
HeaderNodes(entries, i) ==
    IF i > Len(entries) THEN <<>>
    ELSE (IF entries[i].dict
          THEN << ElementProp("", "Header", escape(entries[i].key), "HeaderManager.headers", i),
                  StringProp("Header.name", escape(entries[i].key), "Header", i),
                  StringProp("Header.value", escape(entries[i].value), "Header", i) >>
          ELSE <<>>) \o HeaderNodes(entries, i + 1)

\* `for header in props.get('headers', [])` raises TypeError for a value
\* that is not iterable
HeadersRaise(component) ==
    /\ component.type = "header_manager"
    /\ Get(component.properties, "headers", ListV(<<>>)).k \in {"int", "bool", "null"}

generate_component_xml(component) ==
    LET props   == component.properties
        enabled == FlagText(BoolV(component.enabled))
        P(key, default) == Get(props, key, default)
    IN  CASE component.type = "test_plan" ->
               Element(C_TestPlan, G_TestPlanGui,
                   escape_xml(P("name", StrV(S_TestPlan))), enabled,
                   << StringProp("TestPlan.comments", escape_xml(P("comments", StrV(<<>>))), "", 0),
                      BoolProp("TestPlan.functional_mode", FlagText(P("functional_mode", BoolV(FALSE))), "", 0),
                      BoolProp("TestPlan.tearDown_on_shutdown", FlagText(P("teardown_on_shutdown", BoolV(TRUE))), "", 0),
                      ElementProp("TestPlan.user_defined_variables", "Arguments", <<>>, "", 0),
                      CollectionProp("Arguments.arguments", "Arguments"),
                      StringProp("TestPlan.serialize_threadgroups", FlagText(P("serialize_threadgroups", BoolV(FALSE))), "", 0) >>)
          [] component.type = "thread_group" ->
               Element(C_ThreadGroup, G_ThreadGroupGui,
                   escape_xml(P("name", StrV(S_ThreadGroup))), enabled,
                   << StringProp("ThreadGroup.on_sample_error", escape_xml(P("on_sample_error", StrV(S_continue))), "", 0),
                      ElementProp("ThreadGroup.main_controller", "LoopController", <<>>, "", 0),
                      BoolProp("LoopController.continue_forever", FlagText(P("continue_forever", BoolV(FALSE))), "LoopController", 0),
                      StringProp("LoopController.loops", escape_xml(P("loops", IntV(1))), "LoopController", 0),
                      StringProp("ThreadGroup.num_threads", escape_xml(P("num_threads", IntV(1))), "", 0),
                      StringProp("ThreadGroup.ramp_time", escape_xml(P("ramp_time", IntV(1))), "", 0),
                      BoolProp("ThreadGroup.scheduler", FlagText(P("scheduler", BoolV(FALSE))), "", 0),
                      StringProp("ThreadGroup.duration", escape_xml(P("duration", StrV(<<>>))), "", 0),
                      StringProp("ThreadGroup.delay", escape_xml(P("delay", StrV(<<>>))), "", 0) >>)
          [] component.type = "http_request" ->
               Element(C_HTTPSamplerProxy, G_HttpTestSampleGui,
                   escape_xml(P("name", StrV(S_HTTPRequest))), enabled,
                   (IF Truthy(P("body", NullV))
                    THEN << BoolProp("HTTPSampler.postBodyRaw", S_true, "", 0),
                            ElementProp("HTTPsampler.Arguments", "Arguments", <<>>, "", 0),
                            CollectionProp("Arguments.arguments", "Arguments"),
                            ElementProp("", "HTTPArgument", <<>>, "Arguments", 0),
                            BoolProp("HTTPArgument.always_encode", S_false, "HTTPArgument", 0),
                            StringProp("Argument.value", escape_xml(P("body", StrV(<<>>))), "HTTPArgument", 0),
                            StringProp("Argument.metadata", <<"=">>, "HTTPArgument", 0) >>
                    ELSE << ElementProp("HTTPsampler.Arguments", "Arguments", <<>>, "", 0),
                            CollectionProp("Arguments.arguments", "Arguments") >>)
                   \o
                   << StringProp("HTTPSampler.domain", escape_xml(P("domain", StrV(<<>>))), "", 0),
                      StringProp("HTTPSampler.port", escape_xml(P("port", StrV(<<>>))), "", 0),
                      StringProp("HTTPSampler.protocol", escape_xml(P("protocol", StrV(S_https))), "", 0),
                      StringProp("HTTPSampler.path", escape_xml(P("path", StrV(S_slash))), "", 0),
                      StringProp("HTTPSampler.method", escape_xml(P("method", StrV(S_GET))), "", 0),
                      BoolProp("HTTPSampler.follow_redirects", FlagText(P("follow_redirects", BoolV(TRUE))), "", 0),
                      BoolProp("HTTPSampler.auto_redirects", FlagText(P("auto_redirects", BoolV(FALSE))), "", 0),
                      BoolProp("HTTPSampler.use_keepalive", FlagText(P("use_keepalive", BoolV(TRUE))), "", 0),
                      BoolProp("HTTPSampler.DO_MULTIPART_POST", S_false, "", 0),
                      StringProp("HTTPSampler.embedded_url_re", <<>>, "", 0),
                      StringProp("HTTPSampler.connect_timeout", escape_xml(P("connect_timeout", StrV(<<>>))), "", 0),
                      StringProp("HTTPSampler.response_timeout", escape_xml(P("response_timeout", StrV(<<>>))), "", 0) >>)
          [] component.type = "transaction_controller" ->
               Element(C_TransactionController, G_TransactionControllerGui,
                   escape_xml(P("name", StrV(S_TransactionController))), enabled,
                   << BoolProp("TransactionController.includeTimers", FlagText(P("include_timers", BoolV(TRUE))), "", 0),
                      BoolProp("TransactionController.generateParentSample", FlagText(P("generate_parent_sample", BoolV(FALSE))), "", 0) >>)
          [] component.type = "header_manager" ->
               Element(C_HeaderManager, G_HeaderPanel,
                   escape_xml(P("name", StrV(S_HeaderManager))), enabled,
                   << CollectionProp("HeaderManager.headers", "") >>
                      \o HeaderNodes(P("headers", ListV(<<>>)).l, 1))
          [] component.type = "view_results_tree" ->
               Element(C_ResultCollector, G_ViewResultsFullVisualizer,
                   escape_xml(P("name", StrV(S_ViewResultsTree))), enabled,
                   << BoolProp("ResultCollector.error_logging", FlagText(P("error_logging", BoolV(FALSE))), "", 0),
                      ObjProp("saveConfig"),
                      StringProp("filename", escape_xml(P("filename", StrV(<<>>))), "", 0) >>)
          [] OTHER -> Comment(component.type)

\* mutation: an open/close pair also for a component without children
HashTreeFor_AlwaysPair(component, below) ==
    << HashTreeOpen >> \o below \o << HashTreeClose >>

\* lines 630-636: the hashTree that follows a component's element
HashTreeFor(component, below) ==
    IF component.children # <<>>
    THEN << HashTreeOpen >> \o below \o << HashTreeClose >>
    ELSE << HashTreeEmpty >>

\* build_hierarchy: depth counts the nested calls; a walk nested deeper than
\* the number of components is on a cycle of children lists, which Python
\* ends with RecursionError
RECURSIVE build_hierarchy(_, _, _)
build_hierarchy(components_dict, root_ids, depth) ==
    IF depth > Cardinality(DOMAIN components_dict) + 1
    THEN [status |-> "RecursionError", xml |-> <<>>]
    ELSE IF root_ids = <<>> THEN [status |-> "ok", xml |-> <<>>]
    ELSE IF Head(root_ids) \notin DOMAIN components_dict
    THEN build_hierarchy(components_dict, Tail(root_ids), depth)
    ELSE LET component == components_dict[Head(root_ids)]
         IN  IF HeadersRaise(component)
             THEN [status |-> "TypeError", xml |-> <<>>]
             ELSE LET below == IF component.children # <<>>
                               THEN build_hierarchy(components_dict,
                                                    component.children, depth + 1)
                               ELSE [status |-> "ok", xml |-> <<>>]
                  IN  IF below.status # "ok" THEN below
                      ELSE LET rest == build_hierarchy(components_dict,
                                                       Tail(root_ids), depth)
                           IN  IF rest.status # "ok" THEN rest
                               ELSE [status |-> "ok",
                                     xml |-> << generate_component_xml(component) >>
                                             \o HashTreeFor(component, below.xml)
                                             \o rest.xml]

_generate_jmx_xml(test_plan) ==
    build_hierarchy(test_plan.components, test_plan.root_components, 1)

-----------------------------------------------------------------------------
(* generate_jmx                                                            *)

Response(status, xml, details, warnings) ==
    [status |-> status, xml |-> xml, details |-> details, warnings |-> warnings]

NoResponse == Response(0, <<>>, <<>>, <<>>)

generate_jmx(test_plan) ==
    LET validation == validate_test_plan(test_plan)
    IN  IF validation.status # "ok" THEN Response(500, <<>>, <<>>, <<>>)
        ELSE IF ~validation.valid
        THEN Response(400, <<>>, validation.errors, <<>>)
        ELSE LET jmx_xml == _generate_jmx_xml(test_plan)
             IN  IF jmx_xml.status # "ok" THEN Response(500, <<>>, <<>>, <<>>)
                 ELSE Response(200, jmx_xml.xml, <<>>, validation.warnings)

-----------------------------------------------------------------------------
(* ET.fromstring: well-formedness and entity decoding                      *)

Entities == << <<AMP, "&">>, <<LT, "<">>, <<GT, ">">>, <<QUOT, "\"">>, <<APOS, "'">> >>

EntityAt(s, i) ==
    IF \E e \in 1..Len(Entities) : HasPrefixAt(s, i, Entities[e][1])
    THEN CHOOSE e \in 1..Len(Entities) : HasPrefixAt(s, i, Entities[e][1])
    ELSE 0

\* character data: no "<", and every "&" starts an entity reference
WellFormedText(s) ==
    \A i \in 1..Len(s) : s[i] # "<" /\ (s[i] = "&" => EntityAt(s, i) # 0)

\* a double-quoted attribute value: character data without a double quote
WellFormedAttr(s) ==
    WellFormedText(s) /\ \A i \in 1..Len(s) : s[i] # "\""

RECURSIVE XmlDecodeFrom(_, _)
XmlDecodeFrom(s, i) ==
    IF i > Len(s) THEN <<>>
    ELSE IF s[i] = "&" /\ EntityAt(s, i) # 0
         THEN << Entities[EntityAt(s, i)][2] >>
                 \o XmlDecodeFrom(s, i + Len(Entities[EntityAt(s, i)][1]))
         ELSE << s[i] >> \o XmlDecodeFrom(s, i + 1)

\* the value the XML reader hands out for raw text or a raw attribute value
XmlDecode(s) == XmlDecodeFrom(s, 1)

WellFormedToken(t) ==
    t.k = "elem" =>
        /\ WellFormedAttr(t.testname)
        /\ WellFormedAttr(t.enabled)
        /\ \A i \in 1..Len(t.props) :
              WellFormedAttr(t.props[i].attr) /\ WellFormedText(t.props[i].text)

\* hashTree markers are balanced and never close below the root hashTree
RECURSIVE Balanced(_, _, _)
Balanced(toks, i, depth) ==
    IF i > Len(toks) THEN depth = 0
    ELSE IF toks[i].k = "open" THEN Balanced(toks, i + 1, depth + 1)
    ELSE IF toks[i].k = "close" THEN depth > 0 /\ Balanced(toks, i + 1, depth - 1)
    ELSE Balanced(toks, i + 1, depth)

WellFormed(toks) ==
    Balanced(toks, 1, 0) /\ \A i \in 1..Len(toks) : WellFormedToken(toks[i])

DecodeToken(t) ==
    [t EXCEPT !.testname = XmlDecode(@),
              !.enabled  = XmlDecode(@),
              !.props    = [i \in 1..Len(@) |->
                               [@[i] EXCEPT !.attr = XmlDecode(@),
                                            !.text = XmlDecode(@)]]]

\* the element tree of a well-formed text; comments are dropped by the reader
ET_fromstring(toks) ==
    LET kept == SelectSeq(toks, LAMBDA t : t.k # "comment")
    IN  [i \in 1..Len(kept) |-> DecodeToken(kept[i])]

-----------------------------------------------------------------------------
(* Property extraction                                                     *)

\* elem.find('.//tg[@name="name"]'): the first match in document order
FindProp(nodes, tg, name) ==
    IF \E i \in 1..Len(nodes) : nodes[i].tg = tg /\ nodes[i].name = name
    THEN CHOOSE i \in 1..Len(nodes) :
            /\ nodes[i].tg = tg /\ nodes[i].name = name
            /\ \A j \in 1..(i - 1) : ~(nodes[j].tg = tg /\ nodes[j].name = name)
    ELSE 0

get_string_prop(nodes, prop_name, default) ==
    LET i == FindProp(nodes, "stringProp", prop_name)
    IN  IF i # 0 /\ nodes[i].text # <<>> THEN unescape(nodes[i].text) ELSE default

get_bool_prop(nodes, prop_name, default) ==
    LET i == FindProp(nodes, "boolProp", prop_name)
    IN  IF i # 0 /\ nodes[i].text # <<>> THEN lower(nodes[i].text) = S_true ELSE default

\* the sub-elements inside the container `within` number grp
Inside(nodes, within, grp) ==
    SelectSeq(nodes, LAMBDA n : n.within = within /\ n.grp = grp)

extract_http_body(nodes) ==
    IF get_bool_prop(nodes, "HTTPSampler.postBodyRaw", FALSE)
    THEN LET args == SelectSeq(nodes, LAMBDA n : n.within = "HTTPArgument")
             i    == FindProp(args, "stringProp", "Argument.value")
         IN  IF i # 0 /\ args[i].text # <<>> THEN unescape(args[i].text) ELSE <<>>
    ELSE <<>>

\* elem.get("testname", default)
TestName(elem, default) == IF elem.hasname THEN elem.testname ELSE default

\* elem.get("enabled", "true").lower() == "true"
Enabled(elem) == lower(elem.enabled) = S_true

\* mutation: 0 instead of the default when int() rejects the text
IntOr_Zero(text, default) == IF StrToInt(text).ok THEN StrToInt(text).n ELSE 0

\* int(text) with the fallback of the except branch
IntOr(text, default) == IF StrToInt(text).ok THEN StrToInt(text).n ELSE default

Props(pairs) ==
    [key \in {pairs[i][1] : i \in 1..Len(pairs)} |->
        pairs[CHOOSE i \in 1..Len(pairs) : pairs[i][1] = key][2]]

-----------------------------------------------------------------------------
(* parse_jmx_xml                                                           *)

S_Listener      == <<"L", "i", "s", "t", "e", "n", "e", "r">>
S_SummaryReport == <<"S", "u", "m", "m", "a", "r", "y", " ", "R", "e", "p", "o", "r", "t">>
S_Timer         == <<"T", "i", "m", "e", "r">>
S_Assertion     == <<"A", "s", "s", "e", "r", "t", "i", "o", "n">>
S_Imported      == <<"I", "m", "p", "o", "r", "t", "e", "d", " ", "T", "e", "s", "t", " ", "P", "l", "a", "n">>
S_response_data == <<"A", "s", "s", "e", "r", "t", "i", "o", "n", ".", "r", "e", "s", "p", "o", "n", "s", "e", "_", "d", "a", "t", "a">>
S_CONTAINS      == <<"A", "s", "s", "e", "r", "t", "i", "o", "n", ".", "T", "E", "S", "T", "_", "F", "I", "E", "L", "D", "_", "C", "O", "N", "T", "A", "I", "N", "S">>

\* generateId: 'comp_' and twelve hex digits of a fresh uuid4; the n-th
\* token drawn is distinct from every other token
generateId(n) == "comp_" \o ToString(n)

\* `needle in text`
Contains(text, needle) == \E i \in 1..Len(text) : HasPrefixAt(text, i, needle)

parse_test_plan_element(elem) ==
    LET name == TestName(elem, S_TestPlan)
    IN  JMXComponent("test_plan", name, Enabled(elem),
            Props(<< <<"name", StrV(name)>>,
                     <<"comments", StrV(get_string_prop(elem.props, "TestPlan.comments", <<>>))>>,
                     <<"functional_mode", BoolV(get_bool_prop(elem.props, "TestPlan.functional_mode", FALSE))>>,
                     <<"teardown_on_shutdown", BoolV(get_bool_prop(elem.props, "TestPlan.tearDown_on_shutdown", TRUE))>>,
                     <<"serialize_threadgroups", BoolV(get_bool_prop(elem.props, "TestPlan.serialize_threadgroups", FALSE))>> >>),
            <<>>, <<>>)

parse_thread_group_element(elem) ==
    LET name  == TestName(elem, S_ThreadGroup)
        hasLC == \E i \in 1..Len(elem.props) :
                    elem.props[i].tg = "elementProp" /\ elem.props[i].etype = "LoopController"
        lc    == SelectSeq(elem.props, LAMBDA n : n.within = "LoopController")
        loops == IF hasLC THEN get_string_prop(lc, "LoopController.loops", <<"1">>) ELSE <<"1">>
        continue_forever ==
                 IF hasLC THEN get_bool_prop(lc, "LoopController.continue_forever", FALSE) ELSE FALSE
    IN  JMXComponent("thread_group", name, Enabled(elem),
            Props(<< <<"name", StrV(name)>>,
                     <<"num_threads", IntV(IntOr(get_string_prop(elem.props, "ThreadGroup.num_threads", <<"1">>), 1))>>,
                     <<"ramp_time", IntV(IntOr(get_string_prop(elem.props, "ThreadGroup.ramp_time", <<"1">>), 1))>>,
                     <<"loops", IntV(IF loops # <<>> THEN IntOr(loops, 1) ELSE 1)>>,
                     <<"continue_forever", BoolV(continue_forever)>>,
                     <<"on_sample_error", StrV(get_string_prop(elem.props, "ThreadGroup.on_sample_error", S_continue))>>,
                     <<"scheduler", BoolV(get_bool_prop(elem.props, "ThreadGroup.scheduler", FALSE))>>,
                     <<"duration", StrV(get_string_prop(elem.props, "ThreadGroup.duration", <<>>))>>,
                     <<"delay", StrV(get_string_prop(elem.props, "ThreadGroup.delay", <<>>))>> >>),
            <<>>, <<>>)

parse_http_sampler_element(elem) ==
    LET name       == TestName(elem, S_HTTPRequest)
        port_str   == get_string_prop(elem.props, "HTTPSampler.port", <<>>)
        port_value == IF port_str # <<>> /\ Strip(port_str) # <<>> /\ StrToInt(port_str).ok
                         /\ 1 <= StrToInt(port_str).n /\ StrToInt(port_str).n <= 65535
                      THEN IntV(StrToInt(port_str).n) ELSE StrV(<<>>)
    IN  JMXComponent("http_request", name, Enabled(elem),
            Props(<< <<"name", StrV(name)>>,
                     <<"domain", StrV(get_string_prop(elem.props, "HTTPSampler.domain", <<>>))>>,
                     <<"port", port_value>>,
                     <<"protocol", StrV(get_string_prop(elem.props, "HTTPSampler.protocol", S_https))>>,
                     <<"path", StrV(get_string_prop(elem.props, "HTTPSampler.path", S_slash))>>,
                     <<"method", StrV(get_string_prop(elem.props, "HTTPSampler.method", S_GET))>>,
                     <<"follow_redirects", BoolV(get_bool_prop(elem.props, "HTTPSampler.follow_redirects", TRUE))>>,
                     <<"auto_redirects", BoolV(get_bool_prop(elem.props, "HTTPSampler.auto_redirects", FALSE))>>,
                     <<"use_keepalive", BoolV(get_bool_prop(elem.props, "HTTPSampler.use_keepalive", TRUE))>>,
                     <<"body", StrV(extract_http_body(elem.props))>>,
                     <<"content_encoding", StrV(get_string_prop(elem.props, "HTTPSampler.contentEncoding", <<>>))>>,
                     <<"connect_timeout", StrV(get_string_prop(elem.props, "HTTPSampler.connect_timeout", <<>>))>>,
                     <<"response_timeout", StrV(get_string_prop(elem.props, "HTTPSampler.response_timeout", <<>>))>> >>),
            <<>>, <<>>)

parse_transaction_controller_element(elem) ==
    LET name == TestName(elem, S_TransactionController)
    IN  JMXComponent("transaction_controller", name, Enabled(elem),
            Props(<< <<"name", StrV(name)>>,
                     <<"include_timers", BoolV(get_bool_prop(elem.props, "TransactionController.includeTimers", TRUE))>>,
                     <<"generate_parent_sample", BoolV(get_bool_prop(elem.props, "TransactionController.generateParentSample", FALSE))>> >>),
            <<>>, <<>>)

\* the (key, value) pairs of the header sub-elements, in document order;
\* a header whose name is empty is left out
RECURSIVE ParsedHeaders(_, _)
ParsedHeaders(nodes, i) ==
    IF i > Len(nodes) THEN <<>>
    ELSE (IF nodes[i].tg = "elementProp" /\ nodes[i].within = "HeaderManager.headers"
          THEN LET sub   == Inside(nodes, "Header", nodes[i].grp)
                   key   == get_string_prop(sub, "Header.name", <<>>)
                   value == get_string_prop(sub, "Header.value", <<>>)
               IN  IF key # <<>> THEN << HeaderEntry(key, value) >> ELSE <<>>
          ELSE <<>>) \o ParsedHeaders(nodes, i + 1)

parse_header_manager_element(elem) ==
    LET name == TestName(elem, S_HeaderManager)
    IN  JMXComponent("header_manager", name, Enabled(elem),
            Props(<< <<"name", StrV(name)>>,
                     <<"headers", ListV(ParsedHeaders(elem.props, 1))>> >>),
            <<>>, <<>>)

parse_result_collector_element(elem) ==
    LET summary == ~Contains(elem.guiclass, G_ViewResultsFullVisualizer)
                      /\ Contains(elem.guiclass, G_SummaryReport)
        name    == IF Contains(elem.guiclass, G_ViewResultsFullVisualizer)
                   THEN TestName(elem, S_ViewResultsTree)
                   ELSE IF summary THEN TestName(elem, S_SummaryReport)
                   ELSE TestName(elem, S_Listener)
    IN  JMXComponent(IF summary THEN "summary_report" ELSE "view_results_tree",
            name, Enabled(elem),
            Props(<< <<"name", StrV(name)>>,
                     <<"filename", StrV(get_string_prop(elem.props, "filename", <<>>))>>,
                     <<"error_logging", BoolV(get_bool_prop(elem.props, "ResultCollector.error_logging", FALSE))>>,
                     <<"success_only_logging", BoolV(get_bool_prop(elem.props, "ResultCollector.success_only_logging", FALSE))>> >>),
            <<>>, <<>>)

\* f"Unknown ({testclass})"
UnknownName(testclass) ==
    <<"U", "n", "k", "n", "o", "w", "n", " ", "(">> \o testclass \o <<")">>

parse_component_element(elem) ==
    CASE elem.testclass = C_TestPlan -> parse_test_plan_element(elem)
      [] elem.testclass = C_ThreadGroup -> parse_thread_group_element(elem)
      [] elem.testclass = C_HTTPSamplerProxy -> parse_http_sampler_element(elem)
      [] elem.testclass = C_TransactionController -> parse_transaction_controller_element(elem)
      [] elem.testclass = C_HeaderManager -> parse_header_manager_element(elem)
      [] elem.testclass = C_ResultCollector -> parse_result_collector_element(elem)
      [] elem.testclass \in {C_ConstantTimer, C_UniformRandomTimer, C_GaussianRandomTimer} ->
           LET name      == TestName(elem, S_Timer)
               delay_str == get_string_prop(elem.props, "ConstantTimer.delay", <<"1", "0", "0", "0">>)
           IN  JMXComponent("constant_timer", name, Enabled(elem),
                   Props(<< <<"name", StrV(name)>>,
                            <<"delay", IntV(IF delay_str # <<>> THEN IntOr(delay_str, 1000) ELSE 1000)>> >>),
                   <<>>, <<>>)
      [] elem.testclass \in {C_ResponseAssertion, C_JSONPathAssertion, C_XPathAssertion} ->
           LET name == TestName(elem, S_Assertion)
           IN  JMXComponent("response_assertion", name, Enabled(elem),
                   Props(<< <<"name", StrV(name)>>,
                            <<"test_field", StrV(get_string_prop(elem.props, "Assertion.test_field", S_response_data))>>,
                            <<"pattern_matching", StrV(get_string_prop(elem.props, "Assertion.assume_success", S_CONTAINS))>>,
                            <<"patterns", ListV(<<>>)>>,
                            <<"assume_success", BoolV(get_bool_prop(elem.props, "Assertion.assume_success", FALSE))>>,
                            <<"not", BoolV(get_bool_prop(elem.props, "Assertion.negate", FALSE))>> >>),
                   <<>>, <<>>)
      [] OTHER ->
           LET name == TestName(elem, UnknownName(elem.testclass))
           IN  JMXComponent("unknown", name, Enabled(elem),
                   Props(<< <<"name", StrV(name)>> >>), <<>>, <<>>)


EmptyPlan(name) == JMXTestPlan(name, <<>>, [id \in {} |-> id], <<>>)

Frame(parent, current, skipped) ==
    [parent |-> parent, current |-> current, skipped |-> skipped]

\* mutation: a component under a parent is left out of the parent's children
AddComponent_NoChild(test_plan, elem, parent_id, n) ==
    LET id        == generateId(n)
        component == [parse_component_element(elem) EXCEPT !.parent = parent_id]
        added     == (id :> component) @@ test_plan.components
    IN  IF parent_id = <<>>
        THEN [test_plan EXCEPT
                !.order = Append(@, id),
                !.components = added,
                !.root_components = Append(@, id),
                !.name = IF component.type = "test_plan" THEN component.name ELSE @]
        ELSE [test_plan EXCEPT !.order = Append(@, id), !.components = added]

\* lines 875-890: one component element under parent_id (<<>> for None),
\* given the n-th fresh id
AddComponent(test_plan, elem, parent_id, n) ==
    LET id        == generateId(n)
        component == [parse_component_element(elem) EXCEPT !.parent = parent_id]
        added     == (id :> component) @@ test_plan.components
    IN  IF parent_id # <<>> /\ parent_id[1] \in DOMAIN added
        THEN [test_plan EXCEPT
                !.order = Append(@, id),
                !.components =
                    [added EXCEPT ![parent_id[1]].children = Append(@, id)]]
        ELSE IF parent_id = <<>>
        THEN [test_plan EXCEPT
                !.order = Append(@, id),
                !.components = added,
                !.root_components = Append(@, id),
                !.name = IF component.type = "test_plan" THEN component.name ELSE @]
        ELSE [test_plan EXCEPT !.order = Append(@, id), !.components = added]

\* parse_hash_tree over the elements of the root hashTree in document order.
\* stack holds one frame per open hashTree: the parent_id of the call, its
\* current_component, and whether the hashTree is not walked at all (it follows
\* no component of its level); n counts the ids drawn so far
RECURSIVE parse_hash_tree(_, _, _, _, _)
parse_hash_tree(elems, i, stack, test_plan, n) ==
    IF i > Len(elems) THEN test_plan
    ELSE LET elem == elems[i]
             top  == stack[Len(stack)]
         IN  CASE elem.k = "open" ->
                    parse_hash_tree(elems, i + 1,
                        Append(stack,
                               IF top.skipped \/ top.current = <<>>
                               THEN Frame(<<>>, <<>>, TRUE)
                               ELSE Frame(top.current, <<>>, FALSE)),
                        test_plan, n)
               [] elem.k = "close" ->
                    parse_hash_tree(elems, i + 1, SubSeq(stack, 1, Len(stack) - 1),
                                    test_plan, n)
               [] elem.k = "elem" /\ ~top.skipped ->
                    parse_hash_tree(elems, i + 1,
                        [stack EXCEPT ![Len(stack)].current = << generateId(n + 1) >>],
                        AddComponent(test_plan, elem, top.parent, n + 1), n + 1)
               [] OTHER -> parse_hash_tree(elems, i + 1, stack, test_plan, n)

\* mutation: text that is not well-formed yields the plan of the elements
\* read so far
parse_jmx_xml_Partial(xml_content, n) ==
    IF ~WellFormed(xml_content)
    THEN [status |-> "Exception",
          plan   |-> parse_hash_tree(<< DecodeToken(xml_content[1]) >>, 1,
                                     << Frame(<<>>, <<>>, FALSE) >>,
                                     EmptyPlan(S_Imported), n + 1)]
    ELSE [status |-> "ok",
          plan   |-> parse_hash_tree(ET_fromstring(xml_content), 1,
                                     << Frame(<<>>, <<>>, FALSE) >>,
                                     EmptyPlan(S_Imported), n + 1)]

\* parse_jmx_xml: the plan id takes the first fresh id; text that is not
\* well-formed ends in the exception of line 676
parse_jmx_xml(xml_content, n) ==
    IF ~WellFormed(xml_content)
    THEN [status |-> "Exception", plan |-> EmptyPlan(<<>>)]
    ELSE [status |-> "ok",
          plan   |-> parse_hash_tree(ET_fromstring(xml_content), 1,
                                     << Frame(<<>>, <<>>, FALSE) >>,
                                     EmptyPlan(S_Imported), n + 1)]

NotParsed == [status |-> "none", plan |-> EmptyPlan(<<>>)]


-----------------------------------------------------------------------------
(* The requests a client can send: plans drawn from bounded families       *)

\* longest children list of the shape family
MaxKids == 2

S_example == <<"e", "x", "a", "m", "p", "l", "e", ".", "c", "o", "m">>
S_health  == <<"/", "h", "e", "a", "l", "t", "h">>
S_url     == <<"h", "t", "t", "p", ":", "/", "/", "x">>

\* the display name of the component stored under a key
NameOf(id) ==
    CASE id = "a" -> <<"A">> [] id = "b" -> <<"B">> [] id = "c" -> <<"C">>
      [] id = "d" -> <<"D">> [] OTHER -> <<"E">>

\* a property bag from a set of (key, value) pairs with distinct keys
Bag(pairs) ==
    [key \in {p[1] : p \in pairs} |-> (CHOOSE p \in pairs : p[1] = key)[2]]

\* optional entries: "absent" leaves the key out
Opt(key, values) == {{<<key, v>>} : v \in values} \cup {{}}

TypeTags == CatalogTypes \cup {"bogus"}

\* the bag an editor gives a fresh component: every required property set
FreshBag(type, id) ==
    IF type = "csv_data_config"
    THEN Bag({<<"name", StrV(NameOf(id))>>, <<"filename", StrV(<<"f">>)>>})
    ELSE Bag({<<"name", StrV(NameOf(id))>>})

Fresh(type, id, children, parent) ==
    JMXComponent(type, NameOf(id), TRUE, FreshBag(type, id), children, parent)

\* family 1: a parent and a child of every pair of types, the child's
\* parent reference resolving, unset, empty or dangling; alone, beside a
\* thread group, or beside a request whose path is null
PairPlans ==
    { LET link == IF ref = "parent" THEN << pk >>
                  ELSE IF ref = "none" THEN <<>>
                  ELSE IF ref = "empty" THEN << "" >> ELSE << "z" >>
          base == (pk :> Fresh(pt, pk, IF ref = "parent" THEN << "b" >> ELSE <<>>, <<>>))
                  @@ ("b" :> Fresh(ct, "b", <<>>, link))
          third == IF extra = "thread_group"
                   THEN Fresh("thread_group", "c", <<>>, <<>>)
                   ELSE JMXComponent("http_request", <<"C">>, TRUE,
                            Bag({<<"name", StrV(<<"C">>)>>, <<"path", NullV>>}),
                            <<>>, <<>>)
      IN  IF extra # "none"
          THEN JMXTestPlan(<<"P">>, << pk, "b", "c" >>, base @@ ("c" :> third),
                           IF ref = "parent" THEN << pk, "c" >> ELSE << pk, "b", "c" >>)
          ELSE JMXTestPlan(<<"P">>, << pk, "b" >>, base,
                           IF ref = "parent" THEN << pk >> ELSE << pk, "b" >>)
      : pt \in TypeTags, ct \in TypeTags, pk \in {"a", ""},
        ref \in {"parent", "none", "empty", "dangling"},
        extra \in {"none", "thread_group", "null_path"} }

\* family 2: property bags of one component
HttpBags ==
    { Bag(n \cup dp \cup po \cup bo) :
        n  \in Opt("name", {StrV(<<"B">>)}),
        dp \in { {}, {<<"domain", StrV(<<>>)>>, <<"path", StrV(S_health)>>},
                 {<<"domain", StrV(S_example)>>, <<"path", StrV(S_health)>>,
                  <<"method", StrV(S_GET)>>},
                 {<<"path", StrV(S_url)>>},
                 {<<"path", IntV(5)>>}, {<<"path", NullV>>},
                 {<<"domain", StrV(S_example)>>, <<"path", IntV(5)>>},
                 {<<"domain", IntV(0)>>, <<"path", BoolV(TRUE)>>} },
        po \in Opt("port", {StrV(<<>>), IntV(0), IntV(1), IntV(65535), IntV(65536),
                            StrV(<<"8", "0">>)}),
        bo \in Opt("body", {StrV(<<"b">>)}) }

ThreadGroupBags ==
    { Bag(n \cup nt \cup rt \cup lo) :
        n  \in Opt("name", {StrV(<<"A">>)}),
        nt \in Opt("num_threads", {IntV(0), IntV(1), IntV(5), IntV(10000), IntV(10001),
                                   StrV(<<>>), StrV(<<"5">>), BoolV(TRUE), BoolV(FALSE),
                                   NullV}),
        rt \in Opt("ramp_time", {IntV(-1), IntV(0), IntV(10)}),
        lo \in Opt("loops", {IntV(-2), IntV(-1)}) }

OtherBags(type) ==
    CASE type = "test_plan" ->
           { Bag(n \cup f \cup s) :
               n \in Opt("name", {StrV(<<"B">>)}),
               f \in Opt("functional_mode", {BoolV(TRUE), IntV(1), StrV(S_true)}),
               s \in Opt("serialize_threadgroups", {BoolV(TRUE), BoolV(FALSE)}) }
      [] type = "header_manager" ->
           { Bag(n \cup h) :
               n \in Opt("name", {StrV(<<"B">>)}),
               h \in Opt("headers",
                         {ListV(<<>>), ListV(<< HeaderEntry(<<"k">>, <<"v">>) >>),
                          ListV(<< HeaderEntry(<<"k">>, <<"v">>), HeaderEntry(<<"j">>, <<>>) >>),
                          ListV(<< NotADict, HeaderEntry(<<"k">>, <<"v">>) >>),
                          NullV, IntV(5), StrV(<<"x">>)}) }
      [] type = "csv_data_config" ->
           { Bag(n \cup f) :
               n \in Opt("name", {StrV(<<"B">>)}),
               f \in Opt("filename", {StrV(<<>>), StrV(<<"f">>)}) }
      [] type = "constant_timer" ->
           { Bag(n \cup d) :
               n \in Opt("name", {StrV(<<"B">>)}),
               d \in Opt("delay", {IntV(-1), IntV(0), IntV(1000), StrV(<<"x">>)}) }
      [] type = "view_results_tree" ->
           { Bag(n \cup e) :
               n \in Opt("name", {StrV(<<"B">>)}),
               e \in Opt("error_logging", {BoolV(TRUE), IntV(0)}) }
      [] OTHER ->
           { Bag(n \cup p) :
               n \in Opt("name", {StrV(<<"B">>)}),
               p \in Opt("path", {IntV(5)}) }

\* one component b with a bag of its type, alone or under a thread group a
BagPlans ==
    { JMXTestPlan(<<"P">>, << "a" >>,
                  "a" :> JMXComponent("thread_group", <<"A">>, TRUE, bag, <<>>, <<>>),
                  << "a" >>) : bag \in ThreadGroupBags }
    \cup
    { IF tg
      THEN JMXTestPlan(<<"P">>, << "a", "b" >>,
               ("a" :> Fresh("thread_group", "a", << "b" >>, <<>>))
               @@ ("b" :> JMXComponent(tb[1], <<"B">>, en, tb[2], <<>>, << "a" >>)),
               << "a" >>)
      ELSE JMXTestPlan(<<"P">>, << "b" >>,
               "b" :> JMXComponent(tb[1], <<"B">>, en, tb[2], <<>>, <<>>), << "b" >>)
      : tb \in ({"http_request"} \X HttpBags)
               \cup UNION { {t} \X OtherBags(t) : t \in TypeTags \ {"http_request", "thread_group"} },
        tg \in BOOLEAN, en \in BOOLEAN }

\* family 3: a thread group a, a sampler b, a listener c and a timer d whose
\* children lists and root list are arbitrary id sequences (unknown ids,
\* repeated ids and cycles included); no parent reference is set
RECURSIVE SeqsUpTo(_, _)
SeqsUpTo(S, n) ==
    IF n = 0 THEN { <<>> }
    ELSE SeqsUpTo(S, n - 1)
           \cup { Append(s, x) : s \in { t \in SeqsUpTo(S, n - 1) : Len(t) = n - 1 }, x \in S }

ShapePlans ==
    { JMXTestPlan(<<"P">>, << "a", "b", "c", "d" >>,
          ("a" :> Fresh("thread_group", "a", ka, <<>>))
          @@ ("b" :> Fresh("http_request", "b", kb, <<>>))
          @@ ("c" :> Fresh("view_results_tree", "c", <<>>, <<>>))
          @@ ("d" :> Fresh("constant_timer", "d", <<>>, <<>>)),
          roots)
      : ka \in SeqsUpTo({"a", "b", "c", "d", "z"}, MaxKids),
        kb \in { <<>>, << "c" >>, << "d" >>, << "a" >> },
        roots \in { << "a" >>, << "a", "b" >>, << "b", "a" >>, <<>>,
                    << "z", "a" >>, << "a", "a" >> } }

\* the plan of the round-trip example: a test plan, under it a thread group
\* of 5 threads and ramp time 10, under it a GET request
RoundTripPlan ==
    JMXTestPlan(<<"P">>, << "a", "b", "c" >>,
        ("a" :> Fresh("test_plan", "a", << "b" >>, <<>>))
        @@ ("b" :> JMXComponent("thread_group", <<"B">>, TRUE,
                      Bag({<<"name", StrV(<<"B">>)>>, <<"num_threads", IntV(5)>>,
                           <<"ramp_time", IntV(10)>>}), << "c" >>, << "a" >>))
        @@ ("c" :> JMXComponent("http_request", <<"C">>, TRUE,
                      Bag({<<"name", StrV(<<"C">>)>>, <<"domain", StrV(S_example)>>,
                           <<"path", StrV(S_health)>>, <<"method", StrV(S_GET)>>}),
                      <<>>, << "b" >>)),
        << "a" >>)

\* texts with markup characters, with the literal text of an entity, with a
\* double quote, and the empty text
SpecialTexts == { <<"a", "&", "b">>, <<"<", "x", ">">>, LT, AMP, <<"a", "\"", "b">>, <<>> }

\* the catalog types generate_component_xml has no branch for
UnsupportedTypes ==
    { "csv_data_config", "summary_report", "response_assertion", "constant_timer" }

\* family 4: a thread group a over a component b whose text properties hold
\* special texts (a test plan b stands beside a); and a thread group over a
\* component of an unsupported type followed by a request, with plain and
\* special display names
TextPlans ==
    { JMXTestPlan(<<"P">>, << "a", "b" >>,
          ("a" :> Fresh("thread_group", "a", << "b" >>, <<>>))
          @@ ("b" :> JMXComponent("http_request", <<"B">>, TRUE,
                        Bag({<<"name", StrV(<<"B">>)>>, <<"domain", StrV(v)>>,
                             <<"path", StrV(v)>>, <<"body", StrV(v)>>}),
                        <<>>, << "a" >>)),
          << "a" >>) : v \in SpecialTexts }
    \cup
    { JMXTestPlan(<<"P">>, << "a", "b" >>,
          ("a" :> Fresh("thread_group", "a", <<>>, <<>>))
          @@ ("b" :> JMXComponent("test_plan", <<"B">>, TRUE,
                        Bag({<<"name", StrV(<<"B">>)>>, <<"comments", StrV(v)>>}),
                        <<>>, <<>>)),
          << "b", "a" >>) : v \in SpecialTexts }
    \cup
    { JMXTestPlan(<<"P">>, << "a", "b" >>,
          ("a" :> Fresh("thread_group", "a", << "b" >>, <<>>))
          @@ ("b" :> JMXComponent("header_manager", <<"B">>, TRUE,
                        Bag({<<"name", StrV(<<"B">>)>>,
                             <<"headers", ListV(<< HeaderEntry(v, w) >>)>>}),
                        <<>>, << "a" >>)),
          << "a" >>) : v \in SpecialTexts, w \in SpecialTexts }
    \cup
    { JMXTestPlan(<<"P">>, << "a", "b", "c" >>,
          ("a" :> JMXComponent("thread_group", v, TRUE, Bag({<<"name", StrV(v)>>}),
                        << "b", "c" >>, <<>>))
          @@ ("b" :> Fresh(t, "b", <<>>, << "a" >>))
          @@ ("c" :> JMXComponent("http_request", w, TRUE,
                        Bag({<<"name", StrV(w)>>, <<"domain", StrV(S_example)>>}),
                        <<>>, << "a" >>)),
          << "a" >>)
      : t \in UnsupportedTypes, v \in {<<"A">>, <<"a", "\"", "b">>},
        w \in {<<"C">>, <<"a", "&", "b">>, <<"<", "x", ">">>, <<"a", "\"", "b">>} }

\* family 5: a test plan b with each combination of its three flags, beside
\* a thread group a
FlagPlans ==
    { JMXTestPlan(<<"P">>, << "a", "b" >>,
          ("a" :> Fresh("thread_group", "a", <<>>, <<>>))
          @@ ("b" :> JMXComponent("test_plan", <<"B">>, TRUE,
                        Bag({<<"name", StrV(<<"B">>)>>,
                             <<"functional_mode", BoolV(f)>>,
                             <<"teardown_on_shutdown", BoolV(t)>>,
                             <<"serialize_threadgroups", BoolV(s)>>}),
                        <<>>, <<>>)),
          << "b", "a" >>) : f \in BOOLEAN, t \in BOOLEAN, s \in BOOLEAN }

\* family 6: a thread group a with a scheduler duration, over a request b
\* with a connect timeout
TimedPlans ==
    { JMXTestPlan(<<"P">>, << "a", "b" >>,
          ("a" :> JMXComponent("thread_group", <<"A">>, TRUE,
                      Bag({<<"name", StrV(<<"A">>)>>} \cup d), << "b" >>, <<>>))
          @@ ("b" :> JMXComponent("http_request", <<"B">>, TRUE,
                        Bag({<<"name", StrV(<<"B">>)>>, <<"domain", StrV(S_example)>>,
                             <<"path", StrV(S_health)>>} \cup c),
                        <<>>, << "a" >>)),
          << "a" >>)
      : d \in Opt("duration", {IntV(0), IntV(60), StrV(<<>>)}),
        c \in Opt("connect_timeout", {IntV(5), StrV(<<>>)}) }

\* the plan the load-sample endpoint returns: test plan > thread group >
\* HTTP request, header manager, view results tree
load_sample_jmx ==
    JMXTestPlan(<<"S", "a", "m", "p", "l", "e", " ", "T", "e", "s", "t", " ", "P", "l", "a", "n">>,
        << "test_plan_1", "thread_group_1", "http_request_1", "header_manager_1",
           "view_results_tree_1" >>,
        ("test_plan_1" :>
            JMXComponent("test_plan", <<"S", "a", "m", "p", "l", "e", " ", "T", "e", "s", "t", " ", "P", "l", "a", "n">>, TRUE,
                Bag({<<"name", StrV(<<"S", "a", "m", "p", "l", "e", " ", "T", "e", "s", "t", " ", "P", "l", "a", "n">>)>>,
                     <<"comments", StrV(<<"T", "h", "i", "s", " ", "i", "s", " ", "a", " ", "s", "a", "m", "p", "l", "e", " ", "t", "e", "s", "t", " ", "p", "l", "a", "n", " ", "c", "r", "e", "a", "t", "e", "d", " ", "f", "o", "r", " ", "d", "e", "m", "o", "n", "s", "t", "r", "a", "t", "i", "o", "n">>)>>,
                     <<"functional_mode", BoolV(FALSE)>>,
                     <<"teardown_on_shutdown", BoolV(TRUE)>>,
                     <<"serialize_threadgroups", BoolV(FALSE)>>}),
                << "thread_group_1" >>, <<>>))
        @@ ("thread_group_1" :>
            JMXComponent("thread_group", <<"S", "a", "m", "p", "l", "e", " ", "T", "h", "r", "e", "a", "d", " ", "G", "r", "o", "u", "p">>, TRUE,
                Bag({<<"name", StrV(<<"S", "a", "m", "p", "l", "e", " ", "T", "h", "r", "e", "a", "d", " ", "G", "r", "o", "u", "p">>)>>,
                     <<"num_threads", IntV(10)>>, <<"ramp_time", IntV(30)>>,
                     <<"loops", IntV(1)>>, <<"continue_forever", BoolV(FALSE)>>,
                     <<"on_sample_error", StrV(<<"c", "o", "n", "t", "i", "n", "u", "e">>)>>,
                     <<"scheduler", BoolV(FALSE)>>,
                     <<"duration", IntV(0)>>, <<"delay", IntV(0)>>}),
                << "http_request_1", "header_manager_1", "view_results_tree_1" >>,
                << "test_plan_1" >>))
        @@ ("http_request_1" :>
            JMXComponent("http_request", <<"S", "a", "m", "p", "l", "e", " ", "A", "P", "I", " ", "R", "e", "q", "u", "e", "s", "t">>, TRUE,
                Bag({<<"name", StrV(<<"S", "a", "m", "p", "l", "e", " ", "A", "P", "I", " ", "R", "e", "q", "u", "e", "s", "t">>)>>,
                     <<"domain", StrV(<<"h", "t", "t", "p", "b", "i", "n", ".", "o", "r", "g">>)>>, <<"port", StrV(<<>>)>>,
                     <<"protocol", StrV(<<"h", "t", "t", "p", "s">>)>>, <<"path", StrV(<<"/", "g", "e", "t">>)>>,
                     <<"method", StrV(S_GET)>>,
                     <<"follow_redirects", BoolV(TRUE)>>,
                     <<"auto_redirects", BoolV(FALSE)>>,
                     <<"use_keepalive", BoolV(TRUE)>>,
                     <<"body", StrV(<<>>)>>, <<"content_encoding", StrV(<<>>)>>,
                     <<"connect_timeout", StrV(<<>>)>>,
                     <<"response_timeout", StrV(<<>>)>>}),
                <<>>, << "thread_group_1" >>))
        @@ ("header_manager_1" :>
            JMXComponent("header_manager", S_HeaderManager, TRUE,
                Bag({<<"name", StrV(S_HeaderManager)>>,
                     <<"headers",
                       ListV(<< HeaderEntry(<<"A", "c", "c", "e", "p", "t">>, <<"a", "p", "p", "l", "i", "c", "a", "t", "i", "o", "n", "/", "j", "s", "o", "n">>),
                                HeaderEntry(<<"U", "s", "e", "r", "-", "A", "g", "e", "n", "t">>, <<"J", "M", "e", "t", "e", "r", "-", "T", "o", "o", "l", "k", "i", "t", "/", "1", ".", "0">>) >>)>>}),
                <<>>, << "thread_group_1" >>))
        @@ ("view_results_tree_1" :>
            JMXComponent("view_results_tree", S_ViewResultsTree, TRUE,
                Bag({<<"name", StrV(S_ViewResultsTree)>>,
                     <<"filename", StrV(<<>>)>>,
                     <<"error_logging", BoolV(FALSE)>>,
                     <<"success_only_logging", BoolV(FALSE)>>}),
                <<>>, << "thread_group_1" >>)),
        << "test_plan_1" >>)

Plans ==
    PairPlans \cup BagPlans \cup ShapePlans \cup TextPlans \cup FlagPlans
        \cup TimedPlans \cup { RoundTripPlan, load_sample_jmx }

-----------------------------------------------------------------------------
(* The server: one request at a time, each answered from the request alone *)
(* and the files on disk                                                   *)

\* the last exchange: op is the endpoint, id the component of a
\* validate-component request, text the file of a parse request, result a
\* validation result, http the answer of generate, parse the answer of parse
\* the runs a client may start, and the exit codes of the JMeter process;
\* before any run the tracker holds "Not Started" and no task is added
Runs == {"run_1", "run_2"}
ReturnCodes == {0, 1}

Exchange(op, id, text, result, http, parse) ==
    [op |-> op, id |-> id, text |-> text, result |-> result, http |-> http,
     parse |-> parse]

Init ==
    /\ plan \in Plans
    /\ last = Exchange("none", "", <<>>, NoResult, NoResponse, NotParsed)
    /\ files = {}
    /\ nextId = 0
    /\ jmeter_status_tracker = [status |-> "Not Started", current_run_id |-> ""]
    /\ tasks = [run_id \in Runs |-> [pc |-> "idle", returncode |-> 0]]

\* POST /api/jmx/validate-component
ValidateComponent(id) ==
    /\ last' = Exchange("validate_component", id, <<>>,
                        validate_component(plan.components[id]), NoResponse, NotParsed)
    /\ UNCHANGED <<plan, files, nextId, jmeter_status_tracker, tasks>>

\* POST /api/jmx/validate-test-plan
ValidateTestPlan ==
    /\ last' = Exchange("validate_test_plan", "", <<>>, validate_test_plan(plan),
                        NoResponse, NotParsed)
    /\ UNCHANGED <<plan, files, nextId, jmeter_status_tracker, tasks>>

\* POST /api/jmx/generate: the text is written to a file when it is produced
GenerateJmx ==
    LET response == generate_jmx(plan)
    IN  /\ last' = Exchange("generate", "", <<>>, NoResult, response, NotParsed)
        /\ files' = IF response.status = 200 THEN files \cup { response.xml } ELSE files
        /\ UNCHANGED <<plan, nextId, jmeter_status_tracker, tasks>>

\* ids that one parse of a text draws: one for the plan and one per element
IdsDrawn(xml_content) == 1 + Len(xml_content)

\* names of uploaded files
FileNames == { <<"p", ".", "j", "m", "x">>, <<"p", ".", "x", "m", "l">>, <<"j", "m", "x">> }

\* the answer of the parse endpoint: a file whose name does not end in .jmx
\* is refused before its content is read; the plan of parse_jmx_xml is
\* answered with 200; an ET.ParseError that reaches the handler is answered
\* with 400 and every other exception with 500
parse_jmx_file(filename, xml_content, n) ==
    IF ~endswith(filename, <<".", "j", "m", "x">>)
    THEN [read |-> FALSE, parse |-> NotParsed,
          http |-> Response(400, <<>>, "File must be a .jmx file", <<>>)]
    ELSE CHOOSE answer \in
            { [read |-> TRUE, parse |-> test_plan,
               http |-> CASE test_plan.status = "ok" -> Response(200, <<>>, "", <<>>)
                          [] test_plan.status = "ParseError" ->
                               Response(400, <<>>, "Invalid XML format", <<>>)
                          [] OTHER ->
                               Response(500, <<>>, "Failed to parse JMX file", <<>>)]
              : test_plan \in { parse_jmx_xml(xml_content, n) } } : TRUE

\* POST /api/jmx/parse of a file: one that generate has written, or an
\* upload; op is "parse" once the content was read
ParseJmx(filename, xml_content) ==
    /\ nextId = 0
    /\ \E answer \in { parse_jmx_file(filename, xml_content, nextId) } :
          /\ last' = Exchange(IF answer.read THEN "parse" ELSE "parse_refused", "",
                              IF answer.read THEN xml_content ELSE <<>>,
                              NoResult, answer.http, answer.parse)
          /\ nextId' = IF answer.read THEN nextId + IdsDrawn(xml_content) ELSE nextId
    /\ UNCHANGED <<plan, files, jmeter_status_tracker, tasks>>

Next ==
    \/ \E id \in DOMAIN plan.components : ValidateComponent(id)
    \/ ValidateTestPlan
    \/ GenerateJmx
    \/ \E filename \in FileNames, xml_content \in files : ParseJmx(filename, xml_content)

Spec == Init /\ [][Next]_vars


-----------------------------------------------------------------------------
(* Uploads: the files a client can send to parse, drawn from bounded       *)
(* families of texts that no generate request has written                  *)

\* longest chain of nested elements in an uploaded text
MaxDepth == 3

S_stop == <<"s", "t", "o", "p", "t", "e", "s", "t", "n", "o", "w">>
C_Foo  == <<"F", "o", "o">>
G_Foo  == <<"F", "o", "o", "G", "u", "i">>
S_Mine == <<"M", "i", "n", "e">>

\* a ThreadGroup element as JMeter writes it, with the given raw texts of
\* its three numeric properties
ThreadGroupElement(num_threads, ramp_time, loops) ==
    Element(C_ThreadGroup, G_ThreadGroupGui, <<"T", "G">>, S_true,
        << StringProp("ThreadGroup.on_sample_error", S_stop, "", 0),
           ElementProp("ThreadGroup.main_controller", "LoopController", <<>>, "", 0),
           BoolProp("LoopController.continue_forever", S_true, "LoopController", 0),
           StringProp("LoopController.loops", loops, "LoopController", 0),
           StringProp("ThreadGroup.num_threads", num_threads, "", 0),
           StringProp("ThreadGroup.ramp_time", ramp_time, "", 0),
           BoolProp("ThreadGroup.scheduler", S_true, "", 0),
           StringProp("ThreadGroup.duration", <<"6", "0">>, "", 0),
           StringProp("ThreadGroup.delay", <<>>, "", 0) >>)

\* an element of a class the parser does not know, with a display name
NamedFoo ==
    Element(C_Foo, G_Foo, S_Mine, S_true, << StringProp("Foo.bar", <<"1">>, "", 0) >>)

\* the same element without a testname attribute
UnnamedFoo == [NamedFoo EXCEPT !.hasname = FALSE, !.testname = <<>>]

\* raw texts of a numeric property: integers as int() reads them, and texts
\* int() rejects
NumTexts ==
    { <<"5">>, <<"-", "3">>, <<" ", "7">>, <<"1", "_", "0">>,
      <<>>, <<"x">>, <<"1", ".", "5">>, <<"2", "x">> }

\* family 1: one thread group with every combination of numeric texts
ThreadGroupUploads ==
    { << ThreadGroupElement(nt, rt, lo), HashTreeEmpty >> :
        nt \in NumTexts, rt \in NumTexts, lo \in NumTexts }

UploadElements ==
    { generate_component_xml(Fresh("test_plan", "a", <<>>, <<>>)),
      generate_component_xml(Fresh("http_request", "b", <<>>, <<>>)),
      ThreadGroupElement(<<"5">>, <<"x">>, <<"2">>),
      NamedFoo, UnnamedFoo }

\* family 2: chains of nested elements, the innermost with a self-closing
\* hashTree
RECURSIVE Chains(_)
Chains(depth) ==
    IF depth = 1 THEN { << e, HashTreeEmpty >> : e \in UploadElements }
    ELSE { << e, HashTreeOpen >> \o below \o << HashTreeClose >> :
             e \in UploadElements, below \in Chains(depth - 1) }

ChainUploads == UNION { Chains(depth) : depth \in 1..MaxDepth }

\* family 3: three elements as siblings, as two children of the first, as
\* children in two hashTrees of the first, behind a hashTree that follows no
\* element, and with an element that no hashTree follows
SiblingUploads ==
    UNION { { << e1, HashTreeEmpty, e2, HashTreeEmpty, e3, HashTreeEmpty >>,
              << e1, HashTreeOpen, e2, HashTreeEmpty, e3, HashTreeEmpty, HashTreeClose >>,
              << e1, HashTreeOpen, e2, HashTreeEmpty, HashTreeClose,
                 HashTreeOpen, e3, HashTreeEmpty, HashTreeClose >>,
              << HashTreeOpen, e1, HashTreeEmpty, HashTreeClose, e2, HashTreeEmpty, e3 >>,
              << e1, e2, HashTreeOpen, e3, HashTreeEmpty, HashTreeClose >> } :
            e1 \in UploadElements, e2 \in {NamedFoo, UnnamedFoo, ThreadGroupElement(<<"5">>, <<"x">>, <<"2">>)},
            e3 \in UploadElements }

\* family 4: texts that are not well-formed: a hashTree left open, a stray
\* closing tag, a raw "<" or a bare "&" in a property text, a double quote
\* inside an attribute value
BrokenUploads ==
    UNION { { << e, HashTreeOpen, NamedFoo, HashTreeEmpty >>,
              << e, HashTreeEmpty, HashTreeClose >>,
              << e, HashTreeEmpty,
                 [NamedFoo EXCEPT !.props = << StringProp("Foo.bar", <<"a", "<", "b">>, "", 0) >>],
                 HashTreeEmpty >>,
              << e, HashTreeEmpty,
                 [NamedFoo EXCEPT !.props = << StringProp("Foo.bar", <<"a", "&", "b">>, "", 0) >>],
                 HashTreeEmpty >>,
              << [e EXCEPT !.testname = <<"a", "\"", "b">>], HashTreeEmpty >> } :
            e \in UploadElements }

Uploads == ThreadGroupUploads \cup ChainUploads \cup SiblingUploads \cup BrokenUploads

\* a client that holds no plan
UploadInit ==
    /\ plan = EmptyPlan(<<>>)
    /\ last = Exchange("none", "", <<>>, NoResult, NoResponse, NotParsed)
    /\ files = {}
    /\ nextId = 0
    /\ jmeter_status_tracker = [status |-> "Not Started", current_run_id |-> ""]
    /\ tasks = [run_id \in Runs |-> [pc |-> "idle", returncode |-> 0]]

\* the client takes the plan of a successful parse answer as its plan
LoadParsed ==
    /\ last.op = "parse"
    /\ last.parse.status = "ok"
    /\ plan # last.parse.plan
    /\ plan' = last.parse.plan
    /\ UNCHANGED <<last, files, nextId, jmeter_status_tracker, tasks>>

UploadNext ==
    \/ \E filename \in FileNames, xml_content \in Uploads : ParseJmx(filename, xml_content)
    \/ LoadParsed
    \/ \E id \in DOMAIN plan.components : ValidateComponent(id)
    \/ ValidateTestPlan
    \/ GenerateJmx

UploadSpec == UploadInit /\ [][UploadNext]_vars

-----------------------------------------------------------------------------
(* The runner: /run-jmeter adds run_jmeter as a background task, which the *)
(* server executes in a worker thread; tasks of different requests overlap *)
(* and share jmeter_status_tracker                                         *)

\* the status run_jmeter sets at its end
FinalStatus(returncode) ==
    IF returncode = 0 THEN "Completed"
    ELSE "Failed (exit " \o ToString(returncode) \o ")"

\* POST /run-jmeter: the upload is saved, the run becomes the current run
\* and its task is added; a failure to save ends the request before that
RunJmeterScript(run_id) ==
    /\ tasks[run_id].pc = "idle"
    /\ \E saved \in BOOLEAN :
          IF saved
          THEN /\ jmeter_status_tracker' =
                     [jmeter_status_tracker EXCEPT !.current_run_id = run_id]
               /\ tasks' = [tasks EXCEPT ![run_id].pc = "queued"]
               /\ last' = Exchange("run_jmeter", run_id, <<>>, NoResult,
                                   Response(200, <<>>, "Test started", <<>>), NotParsed)
          ELSE /\ last' = Exchange("run_jmeter", run_id, <<>>, NoResult,
                                   Response(500, <<>>, "Internal Server Error", <<>>),
                                   NotParsed)
               /\ UNCHANGED <<jmeter_status_tracker, tasks>>
    /\ UNCHANGED <<plan, files, nextId>>

\* run_jmeter up to the status "Running": the run folder is made and the
\* metrics file reset, either of which may raise and end the task
StartRun(run_id) ==
    /\ tasks[run_id].pc = "queued"
    /\ \E raised \in BOOLEAN :
          IF raised
          THEN /\ tasks' = [tasks EXCEPT ![run_id].pc = "raised"]
               /\ UNCHANGED jmeter_status_tracker
          ELSE /\ jmeter_status_tracker' =
                     [jmeter_status_tracker EXCEPT !.status = "Running"]
               /\ tasks' = [tasks EXCEPT ![run_id].pc = "started"]
    /\ UNCHANGED <<plan, last, files, nextId>>

\* the log is opened and the JMeter process started and waited for: open or
\* Popen may raise and end the task, otherwise the process exits with a code
WaitJmeter(run_id) ==
    /\ tasks[run_id].pc = "started"
    /\ \/ tasks' = [tasks EXCEPT ![run_id].pc = "raised"]
       \/ \E returncode \in ReturnCodes :
             tasks' = [tasks EXCEPT ![run_id] = [pc |-> "exited", returncode |-> returncode]]
    /\ UNCHANGED <<plan, last, files, nextId, jmeter_status_tracker>>

\* after the exit: the log is read and the summary written, either of which
\* may raise and end the task; an exception while the metrics are parsed is
\* caught; at last the final status is set
FinishRun(run_id) ==
    /\ tasks[run_id].pc = "exited"
    /\ \E raised \in BOOLEAN :
          IF raised
          THEN /\ tasks' = [tasks EXCEPT ![run_id].pc = "raised"]
               /\ UNCHANGED jmeter_status_tracker
          ELSE /\ jmeter_status_tracker' =
                     [jmeter_status_tracker EXCEPT
                         !.status = FinalStatus(tasks[run_id].returncode)]
               /\ tasks' = [tasks EXCEPT ![run_id].pc = "done"]
    /\ UNCHANGED <<plan, last, files, nextId>>

\* GET /status
GetStatus ==
    /\ last' = Exchange("status", "", <<>>, NoResult,
                        Response(200, <<>>, jmeter_status_tracker.status, <<>>),
                        NotParsed)
    /\ UNCHANGED <<plan, files, nextId, jmeter_status_tracker, tasks>>

RunInit ==
    /\ plan = EmptyPlan(<<>>)
    /\ last = Exchange("none", "", <<>>, NoResult, NoResponse, NotParsed)
    /\ files = {}
    /\ nextId = 0
    /\ jmeter_status_tracker = [status |-> "Not Started", current_run_id |-> ""]
    /\ tasks = [run_id \in Runs |-> [pc |-> "idle", returncode |-> 0]]

RunNext ==
    \/ \E run_id \in Runs : RunJmeterScript(run_id)
    \/ \E run_id \in Runs : StartRun(run_id)
    \/ \E run_id \in Runs : WaitJmeter(run_id)
    \/ \E run_id \in Runs : FinishRun(run_id)
    \/ GetStatus

RunSpec == RunInit /\ [][RunNext]_vars

\* every task the server has taken up is run to its end by its worker
\* thread, and the JMeter process it waits for exits
FairRunSpec ==
    RunSpec /\ \A run_id \in Runs :
                   WF_vars(StartRun(run_id) \/ WaitJmeter(run_id) \/ FinishRun(run_id))

-----------------------------------------------------------------------------
(* Properties                                                              *)

\* ids of a list that resolve in the component map, in list order
Resolving(components, ids) == SelectSeq(ids, LAMBDA id : id \in DOMAIN components)

HasError(errors, msg, comp) ==
    \E i \in 1..Len(errors) : errors[i].msg = msg /\ errors[i].comp = comp

Generated == last.op = "generate" /\ last.http.status = 200

\* C1: for the plan made of a root test plan, a thread group child (5
\* threads, ramp time 10) and a GET request grandchild (example.com,
\* /health), generate returns text, and parse of that text returns one root,
\* one thread-group child and one sampler grandchild with the same thread
\* count, ramp time, domain, path and method, under ids that all differ from
\* the original ids.
C1_RoundTrip ==
    plan = RoundTripPlan =>
        /\ last.op = "generate" => last.http.status = 200
        /\ last.op = "parse" =>
              /\ last.parse.status = "ok"
              /\ LET q == last.parse.plan
                 IN  /\ Cardinality(DOMAIN q.components) = 3
                     /\ DOMAIN q.components \cap DOMAIN plan.components = {}
                     /\ Len(q.root_components) = 1
                     /\ LET r == q.components[q.root_components[1]]
                        IN  /\ r.type = "test_plan" /\ Len(r.children) = 1
                            /\ LET t == q.components[r.children[1]]
                               IN  /\ t.type = "thread_group"
                                   /\ t.parent = << q.root_components[1] >>
                                   /\ t.properties["num_threads"] = IntV(5)
                                   /\ t.properties["ramp_time"] = IntV(10)
                                   /\ Len(t.children) = 1
                                   /\ LET h == q.components[t.children[1]]
                                      IN  /\ h.type = "http_request"
                                          /\ h.parent = << r.children[1] >>
                                          /\ h.children = <<>>
                                          /\ h.properties["domain"] = StrV(S_example)
                                          /\ h.properties["path"] = StrV(S_health)
                                          /\ h.properties["method"] = StrV(S_GET)

\* C2: generate produces XML exactly when validation reports no errors; with
\* at least one error the caller receives the error list and no XML is
\* generated or written; warnings alone never prevent generation.
C2_GenerateIffValid ==
    last.op = "generate" =>
        LET validation == validate_test_plan(plan)
        IN  /\ last.http.status = 200
                 <=> (validation.status = "ok" /\ validation.errors = <<>>)
            /\ (validation.status = "ok" /\ validation.errors # <<>>) =>
                  /\ last.http.status = 400
                  /\ last.http.details = validation.errors
                  /\ last.http.xml = <<>>
                  /\ files = {}

IsUnit(t) == t.k \in {"elem", "comment"}

\* hashTree markers open before position i
DepthAt(toks, i) ==
    Cardinality({ j \in 1..(i - 1) : toks[j].k = "open" })
        - Cardinality({ j \in 1..(i - 1) : toks[j].k = "close" })

\* the closing marker of the opening marker at position i
MatchingClose(toks, i) ==
    CHOOSE j \in (i + 1)..Len(toks) :
        /\ toks[j].k = "close" /\ DepthAt(toks, j) = DepthAt(toks, i) + 1
        /\ \A m \in (i + 1)..(j - 1) :
              ~(toks[m].k = "close" /\ DepthAt(toks, m) = DepthAt(toks, i) + 1)

\* positions lo..hi of the component markup at nesting depth d, in order
UnitsIn(toks, lo, hi, d) ==
    SelectSeq([j \in 1..Len(toks) |-> j],
              LAMBDA j : lo <= j /\ j <= hi /\ IsUnit(toks[j]) /\ DepthAt(toks, j) = d)

\* the markup at position i is that of component id: its element, then its
\* one children-wrapper, self-closing for an empty children list and otherwise
\* holding, in order, the markup of the children
RECURSIVE IsImage(_, _, _, _)
IsImage(components, id, toks, i) ==
    /\ toks[i] = generate_component_xml(components[id])
    /\ i < Len(toks)
    /\ IF components[id].children = <<>>
       THEN toks[i + 1].k = "empty"
       ELSE /\ toks[i + 1].k = "open"
            /\ LET kids  == Resolving(components, components[id].children)
                   units == UnitsIn(toks, i + 2, MatchingClose(toks, i + 1) - 1,
                                    DepthAt(toks, i) + 1)
               IN  /\ Len(units) = Len(kids)
                   /\ \A n \in 1..Len(kids) : IsImage(components, kids[n], toks, units[n])

\* C3: the generated text is the depth-first, order-preserving image of the
\* tree: for each id of root_components in order (ids that name no component
\* have no markup) the component's element immediately followed by exactly one
\* children-wrapper, self-closing when the children list is empty, otherwise
\* an open/close pair holding the same markup of each child in order.
C3_DepthFirstImage ==
    Generated =>
        LET toks  == last.http.xml
            roots == Resolving(plan.components, plan.root_components)
            top   == UnitsIn(toks, 1, Len(toks), 0)
        IN  /\ \A i \in 1..Len(toks) :
                  IsUnit(toks[i]) => i < Len(toks) /\ toks[i + 1].k \in {"open", "empty"}
            /\ \A i \in 1..Len(toks) :
                  toks[i].k \in {"open", "empty"} => i > 1 /\ IsUnit(toks[i - 1])
            /\ Len(top) = Len(roots)
            /\ \A n \in 1..Len(roots) : IsImage(plan.components, roots[n], toks, top[n])

\* a generated text with two roots, the first with two distinct children of
\* which one has a child of its own and the other has none
C3_Witness ==
    /\ Generated
    /\ plan.root_components = << "a", "b" >>
    /\ plan.components["a"].children = << "b", "c" >>
    /\ plan.components["b"].children = << "d" >>

Listeners == { t \in CatalogTypes : JMX_COMPONENT_LIBRARY[t].category = "listener" }

ParentResolves(id) ==
    /\ plan.components[id].parent # <<>>
    /\ plan.components[id].parent[1] \in DOMAIN plan.components

ParentOf(id) == plan.components[plan.components[id].parent[1]]

\* C4: validate_test_plan reports the hierarchy error "cannot be a child of"
\* and marks the plan invalid whenever a listener (view_results_tree or
\* summary_report) has another listener as its parent.
C4_ListenerUnderListener ==
    last.op = "validate_test_plan" =>
        \A id \in DOMAIN plan.components :
            (/\ plan.components[id].type \in Listeners
             /\ ParentResolves(id)
             /\ ParentOf(id).type \in Listeners)
            => /\ last.result.status = "ok"
               /\ ~last.result.valid
               /\ HasError(last.result.errors, "cannot be a child of",
                           plan.components[id].name)

\* C5: for every component whose parent id resolves, validate_test_plan
\* reports "cannot be a child of <parent>" for it exactly when the parent
\* type's allowed-children set is non-empty and lacks the category of the
\* child's type.
C5_HierarchyErrorExactly ==
    last.op = "validate_test_plan" =>
        \A id \in DOMAIN plan.components :
            ParentResolves(id) =>
                ((\E i \in 1..Len(last.result.errors) :
                     /\ last.result.errors[i].msg = "cannot be a child of"
                     /\ last.result.errors[i].comp = plan.components[id].name
                     /\ last.result.errors[i].parent = ParentOf(id).name)
                 <=> (/\ AllowedChildrenOf(ParentOf(id).type) # {}
                      /\ CategoryOf(plan.components[id].type)
                            \notin AllowedChildrenOf(ParentOf(id).type)))

\* C6: for every plan without a component of the thread-group category,
\* validate_test_plan returns valid = false with the error that the plan must
\* contain at least one thread group.
C6_NoThreadGroup ==
    (/\ last.op = "validate_test_plan"
     /\ \A id \in DOMAIN plan.components :
           CategoryOf(plan.components[id].type) # "threads")
    => /\ last.result.status = "ok"
       /\ ~last.result.valid
       /\ \E i \in 1..Len(last.result.errors) :
             last.result.errors[i] = NoThreadGroupError

Requested == plan.components[last.id]

\* C7: for every component of a known type and every required property
\* absent from its bag, validate_component reports exactly one error naming
\* that property and returns valid = false.
C7_MissingRequired ==
    (last.op = "validate_component" /\ Requested.type \in CatalogTypes) =>
        \A n \in 1..Len(JMX_COMPONENT_LIBRARY[Requested.type].properties) :
            LET pd == JMX_COMPONENT_LIBRARY[Requested.type].properties[n]
            IN  (pd.required /\ pd.name \notin DOMAIN Requested.properties) =>
                    /\ last.result.status = "ok"
                    /\ ~last.result.valid
                    /\ Cardinality({ i \in 1..Len(last.result.errors) :
                                       last.result.errors[i].prop = pd.name }) = 1
                    /\ \E i \in 1..Len(last.result.errors) :
                          /\ last.result.errors[i].msg = "Missing required property"
                          /\ last.result.errors[i].prop = pd.name

RangeErrors(errors, prop) ==
    { i \in 1..Len(errors) :
        errors[i].prop = prop /\ errors[i].msg \in {"must be >=", "must be <="} }

\* C8: for every number property with a min and/or max, validate_component
\* reports an error when the numeric value is below the min or above the max,
\* and no range error when the value equals the min or the max.
C8_RangeBoundaries ==
    (last.op = "validate_component" /\ Requested.type \in CatalogTypes) =>
        \A n \in 1..Len(JMX_COMPONENT_LIBRARY[Requested.type].properties) :
            LET pd == JMX_COMPONENT_LIBRARY[Requested.type].properties[n]
                v  == Requested.properties[pd.name]
            IN  (/\ pd.type = "number" /\ (pd.hasmin \/ pd.hasmax)
                 /\ pd.name \in DOMAIN Requested.properties /\ IsNumber(v)) =>
                    /\ ((pd.hasmin /\ NumVal(v) < pd.min) \/ (pd.hasmax /\ NumVal(v) > pd.max))
                          => /\ last.result.status = "ok"
                             /\ ~last.result.valid
                             /\ RangeErrors(last.result.errors, pd.name) # {}
                    /\ ((pd.hasmin /\ NumVal(v) = pd.min) \/ (pd.hasmax /\ NumVal(v) = pd.max))
                          => /\ last.result.status = "ok"
                             /\ RangeErrors(last.result.errors, pd.name) = {}

\* C9: for a component whose type tag is not in the catalog,
\* validate_component returns valid = false with exactly one error, the
\* unknown-type error, and no warnings; no property check and no
\* type-specific check is made.
C9_UnknownTypeShortCircuit ==
    (last.op = "validate_component" /\ Requested.type \notin CatalogTypes) =>
        /\ last.result.status = "ok"
        /\ ~last.result.valid
        /\ Len(last.result.errors) = 1
        /\ last.result.errors[1].msg = "Unknown component type"
        /\ last.result.errors[1].prop = Requested.type
        /\ last.result.warnings = <<>>

\* an unknown type validated with its required name missing and a path that
\* is no string: the checks for known types would report or raise here
C9_Witness ==
    /\ last.op = "validate_component"
    /\ Requested.type = "bogus"
    /\ "name" \notin DOMAIN Requested.properties
    /\ "path" \in DOMAIN Requested.properties
    /\ Requested.properties["path"] = IntV(5)
    /\ last.result.status = "ok"

\* C10: validate_component and validate_test_plan return a structured
\* {valid, errors, warnings} result for every component and plan and never
\* raise, also for bags whose values have the wrong kind (an HTTP request
\* with no domain whose path is not a string).
C10_ValidateNeverRaises ==
    last.op \in {"validate_component", "validate_test_plan"} =>
        last.result.status = "ok"


HasDomain(props) == "domain" \in DOMAIN props /\ Truthy(props["domain"])

HasSchemePath(props) ==
    /\ "path" \in DOMAIN props
    /\ props["path"].k = "str"
    /\ startswith(props["path"].s, S_http)

\* C11: for an HTTP request that has neither a non-empty domain nor a path
\* beginning with a scheme, validate_component adds a warning and no error
\* for that condition: the errors are those of the property checks alone, so
\* the validity is what it would be without the condition.
C11_HttpSoftCheck ==
    (/\ last.op = "validate_component"
     /\ Requested.type = "http_request"
     /\ ~HasDomain(Requested.properties)
     /\ ~HasSchemePath(Requested.properties))
    => /\ last.result.status = "ok"
       /\ \E i \in 1..Len(last.result.warnings) :
             last.result.warnings[i].msg
                = "HTTP Request should have a domain or full URL in path"
       /\ last.result.errors
             = AllPropErrors(JMX_COMPONENT_LIBRARY["http_request"].properties,
                             Requested.properties)
       /\ last.result.valid <=> last.result.errors = <<>>

\* C12: for every component whose parent id is set (not null), if that id is
\* not a key of the plan's component map then validate_test_plan reports
\* "invalid parent reference" for it and the plan is invalid.
C12_InvalidParentReference ==
    last.op = "validate_test_plan" =>
        \A id \in DOMAIN plan.components :
            (/\ plan.components[id].parent # <<>>
             /\ plan.components[id].parent[1] \notin DOMAIN plan.components)
            => /\ last.result.status = "ok"
               /\ ~last.result.valid
               /\ HasError(last.result.errors, "has invalid parent reference",
                           plan.components[id].name)


Parsed == last.op = "parse" /\ last.parse.status = "ok"

Count(seq, x) == Cardinality({ i \in 1..Len(seq) : seq[i] = x })

\* C13: every plan returned by parse satisfies the data-model invariants:
\* component ids are pairwise distinct; every component with a parent id has
\* that id in the component map and its own id exactly once in that parent's
\* children list; every component with no parent appears exactly once in
\* root_components and in no children list.
C13_ParsedPlanInvariants ==
    Parsed =>
        LET q == last.parse.plan
        IN  /\ DOMAIN q.components = { q.order[i] : i \in 1..Len(q.order) }
            /\ \A i, j \in 1..Len(q.order) : q.order[i] = q.order[j] => i = j
            /\ \A id \in DOMAIN q.components :
                  IF q.components[id].parent # <<>>
                  THEN /\ q.components[id].parent[1] \in DOMAIN q.components
                       /\ Count(q.components[q.components[id].parent[1]].children, id) = 1
                  ELSE /\ Count(q.root_components, id) = 1
                       /\ \A other \in DOMAIN q.components :
                              Count(q.components[other].children, id) = 0

\* a parsed text in which one element has children in two hashTrees
C13_Witness ==
    /\ Parsed
    /\ Cardinality({ i \in 1..Len(last.text) : last.text[i].k = "open" }) = 2
    /\ \E id \in DOMAIN last.parse.plan.components :
          Len(last.parse.plan.components[id].children) = 2

\* C14: the type tag of every component in a plan returned by parse resolves
\* in the schema registry, the catch-all type "unknown" included, so
\* validate_component never reports the unknown-type error for a component
\* of a parsed plan (every plan a client of UploadSpec holds is a parsed one).
C14_ParsedTypesResolve ==
    /\ Parsed =>
          \A id \in DOMAIN last.parse.plan.components :
              last.parse.plan.components[id].type \in CatalogTypes
    /\ last.op = "validate_component" =>
          \A i \in 1..Len(last.result.errors) :
              last.result.errors[i].msg # "Unknown component type"

\* positions of the element tokens of a text, in document order
ElemPositions(text) ==
    SelectSeq([j \in 1..Len(text) |-> j], LAMBDA j : text[j].k = "elem")

Rank(text, i) == Cardinality({ j \in 1..i : text[j].k = "elem" })

\* every element of the text became a component, so that the n-th element
\* is the n-th component added
AllWalked(text, q) == Len(q.order) = Len(ElemPositions(text))

\* position of the element whose hashTree holds position i, 0 at top level
ParentPos(text, i) ==
    LET around == { p \in 1..(i - 1) :
                      text[p].k = "open" /\ MatchingClose(text, p) > i }
    IN  IF around = {} THEN 0
        ELSE LET p == CHOOSE p \in around : \A o \in around : o <= p
                 before == { j \in 1..(p - 1) :
                               text[j].k = "elem" /\ DepthAt(text, j) = DepthAt(text, p) }
             IN  IF before = {} THEN 0
                 ELSE CHOOSE j \in before : \A o \in before : o <= j

RecognizedClasses ==
    { C_TestPlan, C_ThreadGroup, C_HTTPSamplerProxy, C_TransactionController,
      C_HeaderManager, C_ResultCollector, C_ConstantTimer, C_UniformRandomTimer,
      C_GaussianRandomTimer, C_ResponseAssertion, C_JSONPathAssertion,
      C_XPathAssertion }

\* some field of the component holds the class name
RetainsClass(component, testclass) ==
    \/ Contains(component.name, testclass)
    \/ \E key \in DOMAIN component.properties :
          /\ component.properties[key].k = "str"
          /\ Contains(component.properties[key].s, testclass)

\* C15: for every element whose class is not one of the recognized classes,
\* parse yields a component of type "unknown" that retains the element's
\* class name (also when the element carries a display name), attached at
\* the parent/child position the element had in the text.
C15_UnknownRetainsClass ==
    (Parsed /\ AllWalked(last.text, last.parse.plan)) =>
        LET q == last.parse.plan
        IN  \A i \in 1..Len(last.text) :
                (last.text[i].k = "elem" /\ last.text[i].testclass \notin RecognizedClasses)
                => LET id == q.order[Rank(last.text, i)]
                       up == ParentPos(last.text, i)
                   IN  /\ q.components[id].type = "unknown"
                       /\ RetainsClass(q.components[id], last.text[i].testclass)
                       /\ IF up = 0
                          THEN q.components[id].parent = <<>>
                          ELSE q.components[id].parent = << q.order[Rank(last.text, up)] >>

\* the raw text of the named string property of an element
RawText(elem, name) ==
    elem.props[CHOOSE n \in 1..Len(elem.props) :
                  elem.props[n].tg = "stringProp" /\ elem.props[n].name = name].text

\* what C16 expects of a numeric text: its integer value, or 1 when int()
\* rejects it
Expected(text) == IF StrToInt(text).ok THEN IntV(StrToInt(text).n) ELSE IntV(1)

\* C16: when a thread group element's thread count, ramp time or loop count
\* is not parseable as an integer, parse still succeeds and the thread group
\* has that property at its default (1, 1, 1), with every other property of
\* the element extracted as usual.
C16_MalformedNumericDefaults ==
    last.op = "parse" =>
        \A i \in 1..Len(last.text) :
            (/\ WellFormed(last.text)
             /\ AllWalked(last.text, last.parse.plan)
             /\ last.text[i].k = "elem"
             /\ last.text[i].testclass = C_ThreadGroup
             /\ last.text[i].testname = <<"T", "G">>)
            => /\ last.parse.status = "ok"
               /\ LET q == last.parse.plan
                      c == q.components[q.order[Rank(last.text, i)]]
                  IN  /\ c.type = "thread_group"
                      /\ c.properties["num_threads"]
                            = Expected(RawText(last.text[i], "ThreadGroup.num_threads"))
                      /\ c.properties["ramp_time"]
                            = Expected(RawText(last.text[i], "ThreadGroup.ramp_time"))
                      /\ c.properties["loops"]
                            = Expected(RawText(last.text[i], "LoopController.loops"))
                      /\ c.name = <<"T", "G">>
                      /\ c.enabled
                      /\ c.properties["on_sample_error"] = StrV(S_stop)
                      /\ c.properties["continue_forever"] = BoolV(TRUE)
                      /\ c.properties["scheduler"] = BoolV(TRUE)
                      /\ c.properties["duration"] = StrV(<<"6", "0">>)
                      /\ c.properties["delay"] = StrV(<<>>)

\* a thread group parsed from an element whose thread count and loop count
\* int() rejects and whose ramp time it accepts
C16_Witness ==
    /\ Parsed
    /\ Len(last.text) = 2
    /\ last.text[1].testclass = C_ThreadGroup
    /\ RawText(last.text[1], "ThreadGroup.num_threads") = <<"2", "x">>
    /\ RawText(last.text[1], "ThreadGroup.ramp_time") = <<" ", "7">>
    /\ RawText(last.text[1], "LoopController.loops") = <<"1", ".", "5">>
    /\ last.parse.plan.components[last.parse.plan.order[1]].properties["ramp_time"] = IntV(7)

\* C17: parse of text that is not well-formed markup ends in the one
\* top-level failure and returns no plan, not a partial one; parse of any
\* well-formed text returns a plan, whatever its elements and properties
\* hold.
C17_ParseFailsOnlyOnIllFormedText ==
    last.op = "parse" =>
        /\ ~WellFormed(last.text) =>
              /\ last.parse.status = "Exception"
              /\ last.parse.plan = EmptyPlan(<<>>)
        /\ WellFormed(last.text) => last.parse.status = "ok"

\* a failed parse of a text whose first element is sound and whose damage
\* comes later
C17_Witness ==
    /\ last.op = "parse"
    /\ last.parse.status = "Exception"
    /\ Len(last.text) > 2
    /\ last.text[1].k = "elem"
    /\ WellFormedToken(last.text[1])
    /\ \E i \in 2..Len(last.text) : ~WellFormedToken(last.text[i])


\* the ids build_hierarchy visits from a list of ids, in the order of its
\* walk (of a plan whose children lists form no cycle)
RECURSIVE Walk(_, _)
Walk(components, ids) ==
    IF ids = <<>> THEN <<>>
    ELSE IF Head(ids) \notin DOMAIN components THEN Walk(components, Tail(ids))
    ELSE << Head(ids) >> \o Walk(components, components[Head(ids)].children)
                         \o Walk(components, Tail(ids))

\* the text properties of a type
TextKeys(type) ==
    CASE type = "test_plan" -> {"comments"}
      [] type = "http_request" -> {"domain", "path", "body"}
      [] OTHER -> {}

\* the plan was generated into the text just parsed, and every component of
\* the walk has an element of its own there
ParsedBack ==
    /\ Parsed
    /\ last.text \in files
    /\ \A i \in 1..Len(last.text) : last.text[i].k # "comment"

\* C18: for every string value of a text property (test plan comments, HTTP
\* domain, path and body, header name and value), also one that contains &,
\* < or > or the literal text of an entity such as "&lt;" or "&amp;",
\* generating the plan and parsing the text back returns the same string.
C18_TextRoundTrip ==
    ParsedBack =>
        LET q  == last.parse.plan
            df == Walk(plan.components, plan.root_components)
        IN  /\ Len(q.order) = Len(df)
            /\ \A j \in 1..Len(df) :
                  LET old == plan.components[df[j]]
                      new == q.components[q.order[j]]
                  IN  /\ \A key \in TextKeys(old.type) \cap DOMAIN old.properties :
                            old.properties[key].k = "str"
                               => new.properties[key] = old.properties[key]
                      /\ (/\ old.type = "header_manager"
                          /\ "headers" \in DOMAIN old.properties
                          /\ old.properties["headers"].k = "list"
                          /\ \A n \in 1..Len(old.properties["headers"].l) :
                                old.properties["headers"].l[n].dict)
                         => new.properties["headers"] = old.properties["headers"]

\* C19: for every plan that validates, the text generate returns is
\* well-formed markup: parse of it does not end in the top-level failure,
\* whatever characters occur in display names and property values.
C19_GeneratedTextWellFormed ==
    /\ Generated => WellFormed(last.http.xml)
    /\ (last.op = "parse" /\ last.text \in files) => last.parse.status = "ok"

Validates(test_plan) ==
    validate_test_plan(test_plan).status = "ok"
        /\ validate_test_plan(test_plan).errors = <<>>

\* the ids reached from a set of ids through at most n children lists
RECURSIVE ReachFrom(_, _, _)
ReachFrom(components, ids, n) ==
    IF n = 0 THEN ids
    ELSE ReachFrom(components,
             ids \cup UNION { { components[id].children[i] :
                                  i \in 1..Len(components[id].children) } :
                              id \in ids \cap DOMAIN components },
             n - 1)

\* the components of the tree under the root list
InTree(test_plan) ==
    DOMAIN test_plan.components
       \cap ReachFrom(test_plan.components,
                      { test_plan.root_components[i] :
                          i \in 1..Len(test_plan.root_components) },
                      Cardinality(DOMAIN test_plan.components))

\* C20: for a plan that validates and has in its tree a component of a
\* catalog type without serializer (csv_data_config, summary_report,
\* response_assertion, constant_timer), generate does not abort: the text
\* has a placeholder comment naming the type at the node's position, the
\* complete element and wrapper of every sibling, and is well-formed.
C20_UnsupportedTypePlaceholder ==
    (/\ last.op = "generate"
     /\ Validates(plan)
     /\ \E id \in InTree(plan) :
           plan.components[id].type \in UnsupportedTypes)
    => /\ last.http.status = 200
       /\ WellFormed(last.http.xml)
       /\ LET toks  == last.http.xml
              roots == Resolving(plan.components, plan.root_components)
              top   == UnitsIn(toks, 1, Len(toks), 0)
          IN  /\ Len(top) = Len(roots)
              /\ \A n \in 1..Len(roots) : IsImage(plan.components, roots[n], toks, top[n])
              /\ \A id \in InTree(plan) :
                    plan.components[id].type \in UnsupportedTypes
                       => \E i \in 1..Len(toks) :
                             toks[i] = Comment(plan.components[id].type)



\* the element carries the raw-body flag with the text "true" in any case
RawBodyFlag(elem) ==
    \E n \in 1..Len(elem.props) :
        /\ elem.props[n].tg = "boolProp"
        /\ elem.props[n].name = "HTTPSampler.postBodyRaw"
        /\ lower(elem.props[n].text) = S_true

\* C21: a parsed HTTP request has a non-empty body only if the source
\* element has the raw-body flag set to true; and for a sampler generated
\* from a component with a non-empty body, parse returns that body.
C21_BodyOnlyWhenRaw ==
    /\ (Parsed /\ AllWalked(last.text, last.parse.plan)) =>
          \A i \in 1..Len(last.text) :
              (/\ last.text[i].k = "elem"
               /\ last.text[i].testclass = C_HTTPSamplerProxy
               /\ last.parse.plan.components[
                      last.parse.plan.order[Rank(last.text, i)]].properties["body"]
                     # StrV(<<>>))
              => RawBodyFlag(DecodeToken(last.text[i]))
    /\ ParsedBack =>
          LET q  == last.parse.plan
              df == Walk(plan.components, plan.root_components)
          IN  /\ Len(q.order) = Len(df)
              /\ \A j \in 1..Len(df) :
                    LET old == plan.components[df[j]]
                    IN  (/\ old.type = "http_request"
                         /\ "body" \in DOMAIN old.properties
                         /\ old.properties["body"].k = "str"
                         /\ old.properties["body"].s # <<>>)
                        => q.components[q.order[j]].properties["body"]
                              = old.properties["body"]



TestPlanFlags == {"functional_mode", "teardown_on_shutdown", "serialize_threadgroups"}

\* C22: for a test plan component, generating and then parsing preserves the
\* values of its functional-mode, teardown-on-shutdown and
\* serialize-thread-groups flags for every combination of true/false values.
C22_TestPlanFlagsRoundTrip ==
    ParsedBack =>
        LET q  == last.parse.plan
            df == Walk(plan.components, plan.root_components)
        IN  /\ Len(q.order) = Len(df)
            /\ \A j \in 1..Len(df) :
                  LET old == plan.components[df[j]]
                  IN  (/\ old.type = "test_plan"
                       /\ TestPlanFlags \subseteq DOMAIN old.properties
                       /\ \A key \in TestPlanFlags : old.properties[key].k = "bool")
                      => \A key \in TestPlanFlags :
                            q.components[q.order[j]].properties[key]
                               = old.properties[key]



\* positions of the component markup of a text, in document order
UnitPositions(toks) ==
    SelectSeq([j \in 1..Len(toks) |-> j], LAMBDA j : IsUnit(toks[j]))

\* the header sub-elements of an element, in document order
HeaderElements(elem) ==
    SelectSeq(elem.props, LAMBDA n : n.tg = "elementProp" /\ n.etype = "Header")

HasHeaderList(component) ==
    /\ component.type = "header_manager"
    /\ "headers" \in DOMAIN component.properties
    /\ component.properties["headers"].k = "list"

\* C23: for a header manager, the generator emits exactly one header
\* sub-element per entry of the headers list, in list order, and generating
\* then parsing returns the same ordered list of (name, value) pairs.
C23_HeadersOnePerEntry ==
    /\ Generated =>
          LET toks  == last.http.xml
              df    == Walk(plan.components, plan.root_components)
              units == UnitPositions(toks)
          IN  /\ Len(units) = Len(df)
              /\ \A j \in 1..Len(df) :
                    HasHeaderList(plan.components[df[j]]) =>
                        LET entries == plan.components[df[j]].properties["headers"].l
                            subs    == HeaderElements(toks[units[j]])
                        IN  /\ Len(subs) = Len(entries)
                            /\ \A n \in 1..Len(entries) :
                                  /\ entries[n].dict
                                  /\ subs[n].attr = escape(entries[n].key)
                                  /\ Inside(toks[units[j]].props, "Header", subs[n].grp)
                                        = << StringProp("Header.name", escape(entries[n].key),
                                                        "Header", subs[n].grp),
                                             StringProp("Header.value", escape(entries[n].value),
                                                        "Header", subs[n].grp) >>
    /\ ParsedBack =>
          LET q  == last.parse.plan
              df == Walk(plan.components, plan.root_components)
          IN  /\ Len(q.order) = Len(df)
              /\ \A j \in 1..Len(df) :
                    (/\ HasHeaderList(plan.components[df[j]])
                     /\ \A n \in 1..Len(plan.components[df[j]].properties["headers"].l) :
                           plan.components[df[j]].properties["headers"].l[n].dict)
                    => q.components[q.order[j]].properties["headers"]
                          = plan.components[df[j]].properties["headers"]



\* C24: for every plan that validates, the plan returned by parsing its
\* generated text validates as well (validate_test_plan reports no errors),
\* so the parsed plan can be passed to generate again.
C24_ParsedPlanValidates ==
    (last.op = "parse" /\ last.text \in files /\ Validates(plan)) =>
        /\ last.parse.status = "ok"
        /\ Validates(last.parse.plan)


\* C25: the sample plan returned by load-sample (test plan > thread group >
\* HTTP request, header manager, view results tree) validates with no
\* errors, so generate accepts it and returns XML for it.
C25_SamplePlanValidates ==
    plan = load_sample_jmx =>
        /\ last.op = "validate_test_plan" =>
              /\ last.result.status = "ok"
              /\ last.result.valid
              /\ last.result.errors = <<>>
        /\ last.op = "generate" =>
              /\ last.http.status = 200
              /\ last.http.xml # <<>>


\* C26: for every plan that validates, each component of the plan's
\* component map appears exactly once in the generated output: none is left
\* out because it cannot be reached from root_components through children
\* lists, and none is emitted twice because its id occurs in more than one
\* children list or also in the root list.
C26_EachComponentOnce ==
    (last.op = "generate" /\ Validates(plan)) =>
        /\ last.http.status = 200
        /\ LET toks  == last.http.xml
               df    == Walk(plan.components, plan.root_components)
               units == UnitPositions(toks)
           IN  /\ Len(units) = Len(df)
               /\ \A j \in 1..Len(df) :
                     toks[units[j]] = generate_component_xml(plan.components[df[j]])
               /\ \A id \in DOMAIN plan.components : Count(df, id) = 1


\* C27: for every plan that validates, the generator's depth-first walk
\* terminates: it visits finitely many components and returns the text,
\* however the children lists of the plan's components refer to each other.
C27_WalkReturnsText ==
    (last.op = "generate" /\ Validates(plan)) =>
        /\ _generate_jmx_xml(plan).status # "RecursionError"
        /\ _generate_jmx_xml(plan).status = "ok" =>
              /\ last.http.status = 200
              /\ last.http.xml = _generate_jmx_xml(plan).xml


\* C28: when the uploaded .jmx content is not well-formed XML, the parse
\* endpoint answers with the 400 "Invalid XML format" error, not with the
\* generic 500 "Failed to parse JMX file" error.
C28_IllFormedUploadIs400 ==
    (last.op = "parse" /\ ~WellFormed(last.text)) =>
        /\ last.http.status = 400
        /\ last.http.details = "Invalid XML format"


FinalStatuses == { FinalStatus(returncode) : returncode \in ReturnCodes }

\* C29: after run_jmeter has set the status to "Running", the status
\* eventually becomes "Completed" or "Failed (exit N)": it does not stay
\* "Running" once the run has ended, including when the JMeter process
\* cannot be started or a log or result file cannot be read.
C29_RunningLeadsToFinal ==
    (jmeter_status_tracker.status = "Running")
        ~> (jmeter_status_tracker.status \in FinalStatuses)


\* the run has set the status "Running" and has not ended
InProgress(run_id) == tasks[run_id].pc \in {"started", "exited"}

\* C30: when two test runs are started through /run-jmeter and execute as
\* overlapping background tasks sharing jmeter_status_tracker, /status
\* reports "Running" for as long as at least one of the runs is still in
\* progress.
C30_RunningWhileAnyInProgress ==
    [][(GetStatus /\ \E run_id \in Runs : InProgress(run_id))
          => last'.http.details = "Running"]_vars

====
